---- MODULE Spec2Model ----
(***************************************************************************)
(* @mention detection, notification fan-out and preference enforcement of  *)
(* the chat backend (convex/messages.ts, convex/notifications.ts,          *)
(* convex/notificationPreferences.ts, src/lib/mentions.ts).                *)
(*                                                                         *)
(* Strings are sequences of one-character strings, so that the regular     *)
(* expressions, split(':') and parseInt of the source are computed.        *)
(* Time is counted in minutes since the epoch: Date.now() is `now`, and    *)
(* mutedUntil timestamps use the same unit.                                *)
(***************************************************************************)
EXTENDS Integers, Sequences, FiniteSets, TLC

VARIABLES
    notificationPreferences,  \* table 'notificationPreferences', in insertion order
    notifications,            \* table 'notifications', in insertion order
    messages,                 \* table 'messages', in insertion order
    now,                      \* the clock read by Date.now() / new Date()
    last,                     \* the last call: its name, arguments and outcome
    inflight                  \* the mutation calls that have started and not yet committed

vars == <<notificationPreferences, notifications, messages, now, last, inflight>>

(***************************************************************************)
(* Bounds of the model.                                                    *)
(***************************************************************************)
MaxPreferenceWrites == 2   \* preference mutations before a message is sent
MaxEvalWrites == 3         \* preference mutations before the evaluator is asked
MaxTextLength == 4         \* characters of a text given to the extractors

(***************************************************************************)
(* Characters and character classes of the regular expressions.            *)
(***************************************************************************)
Undefined == "undefined"
\* the null of a mutedUntil argument; timestamps are not negative
Null == 0 - 1

LowerLetters == {"a", "b", "h", "i", "l", "o", "x"}
UpperLetters == {"A", "B"}
Letters == LowerLetters \cup UpperLetters
Digits == {"0", "1", "2", "3", "4", "5", "6", "7", "8", "9"}
TrailingPunctuation == {".", ",", "!", "?", ";", ":"}

\* [a-zA-Z]
IsLetter(c) == c \in Letters
\* \w
IsWordChar(c) == c \in Letters \cup Digits \cup {"_"}
\* [a-zA-Z0-9._-]
IsUsernameChar(c) == c \in Letters \cup Digits \cup {".", "_", "-"}
\* \s
IsWhitespace(c) == c \in {" "}

\* String.prototype.toLowerCase on one character
LowerChar(c) == CASE c = "A" -> "a" [] c = "B" -> "b" [] OTHER -> c
ToLowerCase(s) == [i \in 1..Len(s) |-> LowerChar(s[i])]

\* Array.prototype.includes / Set membership on a sequence
Includes(s, x) == \E i \in 1..Len(s) : s[i] = x

\* new Set(xs) keeping every element
UniqueInOrderKeepingAll(s) == s

\* Insertion-ordered deduplication: Array.from(new Set(xs)) / [...new Set(xs)]
RECURSIVE UniqueInOrder(_)
UniqueInOrder(s) ==
    IF s = <<>> THEN <<>>
    ELSE LET front == UniqueInOrder(SubSeq(s, 1, Len(s) - 1))
             x == s[Len(s)]
         IN IF Includes(front, x) THEN front ELSE Append(front, x)

\* End of the greedy run \w+ that starts at index i
WordRunEnd(s, i) ==
    CHOOSE j \in i..Len(s) :
        /\ \A k \in i..j : IsWordChar(s[k])
        /\ (j = Len(s) \/ ~IsWordChar(s[j + 1]))

\* End of the greedy run [a-zA-Z0-9._-]* that starts at index i
UsernameRunEnd(s, i) ==
    CHOOSE j \in i..Len(s) :
        /\ \A k \in i..j : IsUsernameChar(s[k])
        /\ (j = Len(s) \/ ~IsUsernameChar(s[j + 1]))

\* The members of the index set I that are <= n, in increasing order
RECURSIVE Ascending(_, _)
Ascending(n, I) ==
    IF n = 0 THEN <<>>
    ELSE IF n \in I THEN Append(Ascending(n - 1, I), n)
         ELSE Ascending(n - 1, I)

\* String.prototype.split(sep)[0]
BeforeFirst(s, sep) ==
    IF Includes(s, sep)
    THEN SubSeq(s, 1, (CHOOSE i \in 1..Len(s) :
                          s[i] = sep /\ \A k \in 1..(i - 1) : s[k] # sep) - 1)
    ELSE s

\* the part after the first separator: split(sep)[1] when there is one separator
AfterFirst(s, sep) ==
    IF Includes(s, sep)
    THEN SubSeq(s, (CHOOSE i \in 1..Len(s) :
                       s[i] = sep /\ \A k \in 1..(i - 1) : s[k] # sep) + 1, Len(s))
    ELSE <<>>

DigitValue(c) ==
    CASE c = "0" -> 0 [] c = "1" -> 1 [] c = "2" -> 2 [] c = "3" -> 3 [] c = "4" -> 4
      [] c = "5" -> 5 [] c = "6" -> 6 [] c = "7" -> 7 [] c = "8" -> 8 [] c = "9" -> 9

\* parseInt / Number of a string of decimal digits
RECURSIVE ParseDigits(_)
ParseDigits(s) ==
    IF s = <<>> THEN 0
    ELSE 10 * ParseDigits(SubSeq(s, 1, Len(s) - 1)) + DigitValue(s[Len(s)])

(***************************************************************************)
(* Mention extraction.                                                     *)
(***************************************************************************)
MinUsernameLength == 2
MaxUsernameLength == 50

\* messages.ts extractMentions: /@(\w+)/g, then Array.from(new Set(mentions))
MessagesExtractMentions(messageBody) ==
    LET starts == {i \in 1..(Len(messageBody) - 1) :
                      messageBody[i] = "@" /\ IsWordChar(messageBody[i + 1])}
        at == Ascending(Len(messageBody), starts)
        mentions == [k \in 1..Len(at) |->
                        SubSeq(messageBody, at[k] + 1,
                               WordRunEnd(messageBody, at[k] + 1))]
    IN UniqueInOrder(mentions)

\* the username as captured, nothing stripped
StripTrailingPunctuationNever(username) == username

\* while (username.length > 0 && /[.,!?;:]$/.test(username)) username = username.slice(0, -1)
RECURSIVE StripTrailingPunctuation(_)
StripTrailingPunctuation(username) ==
    IF Len(username) > 0 /\ username[Len(username)] \in TrailingPunctuation
    THEN StripTrailingPunctuation(SubSeq(username, 1, Len(username) - 1))
    ELSE username

\* the matches of /@([a-zA-Z][a-zA-Z0-9._-]*)/g, without the lookbehind
MentionRegexMatchesAnywhere(text) ==
    Ascending(Len(text),
              {i \in 1..(Len(text) - 1) : text[i] = "@" /\ IsLetter(text[i + 1])})

\* the matches of /(?<!\w)@([a-zA-Z][a-zA-Z0-9._-]*)/g in text: the index of each '@'
MentionRegexMatches(text) ==
    Ascending(Len(text),
              {i \in 1..(Len(text) - 1) :
                  /\ text[i] = "@"
                  /\ (i = 1 \/ ~IsWordChar(text[i - 1]))
                  /\ IsLetter(text[i + 1])})

\* capture group 1 of the match whose '@' is at index i
MentionRegexCapture(text, i) == SubSeq(text, i + 1, UsernameRunEnd(text, i + 1))

\* extractMentions applying only the lower length restriction
ExtractMentionsWithoutMaximum(text) ==
    LET at == MentionRegexMatches(text)
        cleaned == [k \in 1..Len(at) |->
                       StripTrailingPunctuation(MentionRegexCapture(text, at[k]))]
        usernames == SelectSeq(cleaned, LAMBDA u : ~(Len(u) < MinUsernameLength))
    IN UniqueInOrder(usernames)

\* src/lib/mentions.ts extractMentions
ExtractMentions(text) ==
    LET at == MentionRegexMatches(text)
        cleaned == [k \in 1..Len(at) |->
                       StripTrailingPunctuation(MentionRegexCapture(text, at[k]))]
        usernames == SelectSeq(cleaned,
                               LAMBDA u : ~(Len(u) < MinUsernameLength
                                            \/ Len(u) > MaxUsernameLength))
    IN UniqueInOrder(usernames)

(***************************************************************************)
(* The directory: users, workspaces, members, channels, conversations.     *)
(* Joining and leaving a workspace are not modelled, so these tables are   *)
(* fixed.  Two members of w1 carry the same name, one user is outside w1.  *)
(***************************************************************************)
Users == {"u1", "u2", "u3", "u4"}
Workspaces == {"w1", "w2"}
Channels == {"c1", "c2"}
Conversations == {"d1"}

\* table 'users': name and email of each user
UserDoc(u) ==
    CASE u = "u1" -> [_id |-> "u1", name |-> <<"a", "l">>,
                      email |-> <<"a", "l", "@", "x">>]
      [] u = "u2" -> [_id |-> "u2", name |-> <<"b", "o">>,
                      email |-> <<"b", "o", "b", "@", "x">>]
      [] u = "u3" -> [_id |-> "u3", name |-> <<"a", "l">>,
                      email |-> <<"a", "l", "i", "@", "x">>]
      [] u = "u4" -> [_id |-> "u4", name |-> <<"b", "o">>,
                      email |-> <<"b", "o", "@", "x">>]

\* table 'members' in insertion order
Members ==
    << [_id |-> "m1", userId |-> "u1", workspaceId |-> "w1"],
       [_id |-> "m2", userId |-> "u2", workspaceId |-> "w1"],
       [_id |-> "m3", userId |-> "u3", workspaceId |-> "w1"],
       [_id |-> "m4", userId |-> "u4", workspaceId |-> "w2"],
       [_id |-> "m5", userId |-> "u1", workspaceId |-> "w2"] >>

\* query('members').withIndex('by_workspace_id', q => q.eq('workspaceId', w)).collect()
MembersOfWorkspace(workspaceId) ==
    SelectSeq(Members, LAMBDA m : m.workspaceId = workspaceId)

\* getMember: the member rows of (workspaceId, userId); empty when .unique() is null
GetMember(workspaceId, userId) ==
    SelectSeq(Members, LAMBDA m : m.workspaceId = workspaceId /\ m.userId = userId)

\* getMentionedUsers keeping, for each name, only the first member that carries it
GetMentionedUsersFirstMatch(workspaceId, usernames) ==
    LET members == MembersOfWorkspace(workspaceId)
        first == {i \in 1..Len(members) :
                    /\ Includes(usernames, UserDoc(members[i].userId).name)
                    /\ \A j \in 1..(i - 1) : UserDoc(members[j].userId).name
                                              # UserDoc(members[i].userId).name}
        order == Ascending(Len(members), first)
    IN [i \in 1..Len(order) |-> members[order[i]].userId]

\* messages.ts getMentionedUsers
GetMentionedUsers(workspaceId, usernames) ==
    IF Len(usernames) = 0 THEN <<>>
    ELSE LET members == MembersOfWorkspace(workspaceId)
             users == [i \in 1..Len(members) |-> UserDoc(members[i].userId)]
             hit == SelectSeq(users, LAMBDA user : user.name # <<>>
                                                  /\ Includes(usernames, user.name))
         IN [i \in 1..Len(hit) |-> hit[i]._id]

(***************************************************************************)
(* Notification preferences (convex/notificationPreferences.ts).           *)
(* A document is a function from field names to values; an optional field  *)
(* that is not set is absent from the domain.                              *)
(***************************************************************************)
\* { ...a, ...b }
Spread(a, b) ==
    [k \in (DOMAIN a) \cup (DOMAIN b) |-> IF k \in DOMAIN b THEN b[k] ELSE a[k]]

\* "HH:mm" strings
T0800 == <<"0", "8", ":", "0", "0">>
T2200 == <<"2", "2", ":", "0", "0">>
T2230 == <<"2", "2", ":", "3", "0">>

\* the default record with mentions switched off
CreateDefaultPreferencesMentionsOff(userId, workspaceId) ==
    [userId |-> userId,
     workspaceId |-> workspaceId,
     globalPreferences |->
        [mentions |-> FALSE, directMessages |-> TRUE, sound |-> TRUE,
         desktop |-> TRUE, email |-> FALSE, mobile |-> TRUE,
         quietHours |-> [enabled |-> FALSE, startTime |-> T2200,
                         endTime |-> T0800, timezone |-> "UTC"]],
     channelPreferences |-> <<>>]

\* createDefaultPreferences
CreateDefaultPreferences(userId, workspaceId) ==
    [userId |-> userId,
     workspaceId |-> workspaceId,
     globalPreferences |->
        [mentions |-> TRUE, directMessages |-> TRUE, sound |-> TRUE,
         desktop |-> TRUE, email |-> FALSE, mobile |-> TRUE,
         quietHours |-> [enabled |-> FALSE, startTime |-> T2200,
                         endTime |-> T0800, timezone |-> "UTC"]],
     channelPreferences |-> <<>>]

\* the clock: getUTCHours / getUTCMinutes of new Date(); the runtime's local
\* time zone is UTC, so getHours is the same hour
GetUTCHours(t) == (t \div 60) % 24
GetUTCMinutes(t) == t % 60
GetHours(t) == GetUTCHours(t)

\* isInQuietHours
IsInQuietHours(quietHours, t) ==
    IF ~quietHours.enabled THEN FALSE
    ELSE LET currentTime == GetUTCHours(t) * 60 + GetUTCMinutes(t)
             startTime == ParseDigits(BeforeFirst(quietHours.startTime, ":")) * 60
                          + ParseDigits(AfterFirst(quietHours.startTime, ":"))
             endTime == ParseDigits(BeforeFirst(quietHours.endTime, ":")) * 60
                        + ParseDigits(AfterFirst(quietHours.endTime, ":"))
         IN IF startTime > endTime
            THEN currentTime >= startTime \/ currentTime < endTime
            ELSE currentTime >= startTime /\ currentTime < endTime

\* channelPreferences.find(cp => cp.channelId === channelId): <<entry>> for the
\* first entry of the channel, <<>> when find returns undefined
FindChannelPref(channelPreferences, channelId) ==
    LET found == SelectSeq(channelPreferences, LAMBDA cp : cp.channelId = channelId)
    IN IF found = <<>> THEN <<>> ELSE <<found[1]>>

\* the mute test that never finds a channel muted
IsMutedNever(channelPref, t) == FALSE

\* channelPref.mutedUntil && channelPref.mutedUntil > Date.now()
IsMuted(channelPref, t) ==
    /\ channelPref # <<>>
    /\ "mutedUntil" \in DOMAIN channelPref[1]
    /\ channelPref[1].mutedUntil > t

\* shouldSendMentionNotification without the channel override
ShouldSendMentionNotificationGlobalOnly(prefs, channelId) ==
    prefs.globalPreferences.mentions

\* shouldSendMentionNotification
ShouldSendMentionNotification(prefs, channelId) ==
    LET channelPref == IF channelId # Undefined
                       THEN FindChannelPref(prefs.channelPreferences, channelId)
                       ELSE <<>>
    IN IF channelPref # <<>>
       THEN CASE channelPref[1].mentions = "enabled" -> TRUE
              [] channelPref[1].mentions = "disabled" -> FALSE
              [] OTHER -> prefs.globalPreferences.mentions
       ELSE prefs.globalPreferences.mentions

\* shouldSendAllMessagesNotification
ShouldSendAllMessagesNotification(prefs, channelId) ==
    LET channelPref == IF channelId # Undefined
                       THEN FindChannelPref(prefs.channelPreferences, channelId)
                       ELSE <<>>
    IN IF channelPref # <<>>
       THEN CASE channelPref[1].allMessages = "enabled" -> TRUE
              [] channelPref[1].allMessages = "disabled" -> FALSE
              [] OTHER -> FALSE
       ELSE FALSE

\* the documents of (userId, workspaceId) under index by_user_workspace;
\* .unique() returns null for none, the document for one, and throws for more
PreferencesOf(table, userId, workspaceId) ==
    SelectSeq(table, LAMBDA p : p.userId = userId /\ p.workspaceId = workspaceId)

UniqueThrows(docs) == Len(docs) > 1

\* shouldSendNotification letting the channel's 'enabled' override answer first
ShouldSendNotificationOverrideFirst(table, userId, workspaceId, channelId, notificationType, t) ==
    LET preferences == PreferencesOf(table, userId, workspaceId)
        prefs == IF preferences = <<>>
                 THEN CreateDefaultPreferences(userId, workspaceId)
                 ELSE preferences[1]
        channelPref == IF channelId # Undefined
                       THEN FindChannelPref(prefs.channelPreferences, channelId)
                       ELSE <<>>
    IN IF /\ notificationType = "mention" /\ channelPref # <<>>
          /\ channelPref[1].mentions = "enabled"
       THEN TRUE
       ELSE IF IsInQuietHours(prefs.globalPreferences.quietHours, t) THEN FALSE
       ELSE IF IsMuted(channelPref, t) THEN FALSE
       ELSE CASE notificationType = "mention" ->
                     ShouldSendMentionNotification(prefs, channelId)
              [] notificationType = "direct_message" ->
                     prefs.globalPreferences.directMessages
              [] notificationType = "all_messages" ->
                     ShouldSendAllMessagesNotification(prefs, channelId)
              [] OTHER -> FALSE

\* shouldSendNotification (query): the value returned when .unique() does not throw
ShouldSendNotification(table, userId, workspaceId, channelId, notificationType, t) ==
    LET preferences == PreferencesOf(table, userId, workspaceId)
        prefs == IF preferences = <<>>
                 THEN CreateDefaultPreferences(userId, workspaceId)
                 ELSE preferences[1]
    IN IF IsInQuietHours(prefs.globalPreferences.quietHours, t) THEN FALSE
       ELSE IF channelId # Undefined
               /\ IsMuted(FindChannelPref(prefs.channelPreferences, channelId), t)
       THEN FALSE
       ELSE CASE notificationType = "mention" ->
                     ShouldSendMentionNotification(prefs, channelId)
              [] notificationType = "direct_message" ->
                     prefs.globalPreferences.directMessages
              [] notificationType = "all_messages" ->
                     ShouldSendAllMessagesNotification(prefs, channelId)
              [] OTHER -> FALSE

(***************************************************************************)
(* The dispatcher (convex/messages.ts).                                    *)
(***************************************************************************)
\* the quiet-hours test of checkNotificationPreferences: whole hours only
DispatcherInQuietHours(quietHours, t) ==
    LET currentHour == GetHours(t)
        startHour == ParseDigits(BeforeFirst(quietHours.startTime, ":"))
        endHour == ParseDigits(BeforeFirst(quietHours.endTime, ":"))
    IN IF startHour < endHour
       THEN currentHour >= startHour /\ currentHour < endHour
       ELSE currentHour >= startHour \/ currentHour < endHour

\* checkNotificationPreferences: the value returned when .unique() does not throw
CheckNotificationPreferences(table, userId, workspaceId, channelId, t) ==
    LET docs == PreferencesOf(table, userId, workspaceId)
        preferences == docs[1]
        channelPref == IF channelId # Undefined
                       THEN FindChannelPref(preferences.channelPreferences, channelId)
                       ELSE <<>>
    IN IF docs = <<>> THEN TRUE
       ELSE IF ~preferences.globalPreferences.mentions THEN FALSE
       ELSE IF IsMuted(channelPref, t) THEN FALSE
       ELSE IF channelPref # <<>> /\ channelPref[1].mentions = "disabled" THEN FALSE
       ELSE IF channelPref # <<>> /\ channelPref[1].mentions = "enabled" THEN TRUE
       ELSE IF preferences.globalPreferences.quietHours.enabled
               /\ DispatcherInQuietHours(preferences.globalPreferences.quietHours, t)
       THEN FALSE
       ELSE TRUE

\* the own-message test that never recognises the author
IsOwnMessageNever(authorUserId, userId) == FALSE

\* the inserted document without the channel of the message
NotificationRowWithoutChannel(userId, messageId, msg, t) ==
    [userId |-> userId, messageId |-> messageId, workspaceId |-> msg.workspaceId,
     channelId |-> Undefined, conversationId |-> msg.conversationId,
     type |-> "mention", read |-> FALSE, createdAt |-> t]

\* "Don't notify users about their own messages": authorUserId && userId === authorUserId
IsOwnMessage(authorUserId, userId) == authorUserId # Undefined /\ userId = authorUserId

\* the document ctx.db.insert('notifications', ...) of handleMentionNotifications inserts
NotificationRow(userId, messageId, msg, t) ==
    [userId |-> userId, messageId |-> messageId, workspaceId |-> msg.workspaceId,
     channelId |-> msg.channelId, conversationId |-> msg.conversationId,
     type |-> "mention", read |-> FALSE, createdAt |-> t]

\* the rows handleMentionNotifications inserts, and whether it throws.  The
\* calls of the store made for recipient `failing` fail (failing = Undefined:
\* none does); .unique() throws when a recipient has several preference
\* documents.  Nothing catches: the first throw ends the loop.
HandleMentionNotifications(table, messageId, msg, authorUserId, t, failing) ==
    LET messageBody == msg.body
        workspaceId == msg.workspaceId
        channelId == msg.channelId
        mentionedUsernames == MessagesExtractMentions(messageBody)
        mentionedUserIds == GetMentionedUsers(workspaceId, mentionedUsernames)
        Skipped(k) == IsOwnMessage(authorUserId, mentionedUserIds[k])
        Throws(k) == /\ ~Skipped(k)
                     /\ \/ mentionedUserIds[k] = failing
                        \/ UniqueThrows(PreferencesOf(table, mentionedUserIds[k],
                                                      workspaceId))
        thrown == {k \in 1..Len(mentionedUserIds) : Throws(k)}
        reached == {k \in 1..Len(mentionedUserIds) : \A j \in thrown : k < j}
        notified == {k \in reached :
                        /\ ~Skipped(k)
                        /\ CheckNotificationPreferences(table, mentionedUserIds[k],
                                                        workspaceId, channelId, t)}
        order == Ascending(Len(mentionedUserIds), notified)
    IN [mentionedUsernames |-> mentionedUsernames,
        mentionedUserIds |-> mentionedUserIds,
        threw |-> Len(mentionedUsernames) # 0 /\ thrown # {},
        rows |-> IF Len(mentionedUsernames) = 0 THEN <<>>
                 ELSE [i \in 1..Len(order) |->
                          NotificationRow(mentionedUserIds[order[i]], messageId, msg, t)]]

(***************************************************************************)
(* Inputs of the calls.                                                    *)
(***************************************************************************)
\* message bodies
Bodies ==
    { <<"h", "i">>,
      <<"@", "b", "o">>,
      <<"@", "a", "l", " ", "@", "b", "o">>,
      <<"@", "A", "l">>,
      <<"@", "b", "o", "b">> }

\* ids of the messages table
MessageIds == {"msg1"}

\* instants of the clock: 09:00 and 23:30 of the first day
Instants == {9 * 60, 23 * 60 + 30}

\* a mute that ends at 23:00 of the first day
MuteUntil == 23 * 60

\* arguments of messages.create
CreateArgs ==
    [body : Bodies, workspaceId : {"w1"}, channelId : {"c1"},
     conversationId : {Undefined}, parentMessageId : {Undefined}]
    \cup [body : Bodies, workspaceId : {"w1"}, channelId : {Undefined},
          conversationId : {"d1"}, parentMessageId : {Undefined}]
    \cup [body : {<<"@", "b", "o">>}, workspaceId : {"w1"}, channelId : {Undefined},
          conversationId : {Undefined}, parentMessageId : {Undefined, "msg1"}]
    \cup [body : {<<"@", "b", "o">>}, workspaceId : {"w1"}, channelId : {"c1"},
          conversationId : {"d1"}, parentMessageId : {Undefined}]
    \cup [body : {<<"@", "b", "o">>}, workspaceId : {"w2"}, channelId : {"c1"},
          conversationId : {Undefined}, parentMessageId : {Undefined}]

\* the signed-in user of a messages.create call (Undefined: nobody is signed in)
Callers == {"u1", "u2", "u4", Undefined}

\* the recipient for whom the store fails during a dispatch (Undefined: nobody)
Failing == {Undefined, "u2"}

QuietHoursArg ==
    [enabled |-> TRUE, startTime |-> T2200, endTime |-> T0800, timezone |-> "UTC"]

\* the (userId, workspaceId) whose owner calls the preference mutations
PreferenceOwners == {<<"u2", "w1">>, <<"u3", "w1">>}

GlobalUpdates == {[mentions |-> FALSE], [quietHours |-> QuietHoursArg]}

ChannelUpdates ==
    {[mentions |-> "enabled"], [mentions |-> "disabled"], [mutedUntil |-> MuteUntil]}

(***************************************************************************)
(* Preference mutations.  The bookkeeping fields createdAt and updatedAt   *)
(* of a preference document are written and never read; they are left out. *)
(* A document's _id is its position in the table.                          *)
(***************************************************************************)
\* index of the document of (userId, workspaceId) that .unique() returns, 0 for null
PreferenceIndex(table, userId, workspaceId) ==
    IF PreferencesOf(table, userId, workspaceId) = <<>> THEN 0
    ELSE CHOOSE i \in 1..Len(table) :
            /\ table[i].userId = userId /\ table[i].workspaceId = workspaceId
            /\ \A j \in 1..(i - 1) :
                  ~(table[j].userId = userId /\ table[j].workspaceId = workspaceId)

\* "Get or create user preferences" of updateGlobal and updateChannel
GetOrCreate(table, userId, workspaceId) ==
    IF PreferenceIndex(table, userId, workspaceId) = 0
    THEN Append(table, CreateDefaultPreferences(userId, workspaceId))
    ELSE table

\* the table after createDefaults
CreateDefaultsTable(table, userId, workspaceId) ==
    IF PreferenceIndex(table, userId, workspaceId) # 0 THEN table
    ELSE Append(table, CreateDefaultPreferences(userId, workspaceId))

\* the table after updateGlobal
UpdateGlobalTable(table, userId, workspaceId, preferences) ==
    LET created == GetOrCreate(table, userId, workspaceId)
        id == PreferenceIndex(created, userId, workspaceId)
        updatedGlobalPrefs == Spread(created[id].globalPreferences, preferences)
    IN [created EXCEPT ![id].globalPreferences = updatedGlobalPrefs]

\* channelUpdate of updateChannel
ChannelUpdate(channelId, preferences) ==
    LET Or(field, default) == IF field \in DOMAIN preferences
                              THEN preferences[field] ELSE default
        base == [channelId |-> channelId,
                 mentions |-> Or("mentions", "inherit"),
                 allMessages |-> Or("allMessages", "disabled"),
                 threads |-> Or("threads", "enabled"),
                 keywords |-> Or("keywords", <<>>)]
    IN IF "mutedUntil" \in DOMAIN preferences /\ preferences.mutedUntil # Null
       THEN Spread(base, [mutedUntil |-> preferences.mutedUntil])
       ELSE base

\* updateChannel pushing the entry whether or not the channel has one
UpdateChannelTableAppending(table, userId, workspaceId, channelId, preferences) ==
    LET created == GetOrCreate(table, userId, workspaceId)
        id == PreferenceIndex(created, userId, workspaceId)
        channelPrefs == created[id].channelPreferences
        channelUpdate == ChannelUpdate(channelId, preferences)
    IN [created EXCEPT ![id].channelPreferences = Append(channelPrefs, channelUpdate)]

\* the table after updateChannel
UpdateChannelTable(table, userId, workspaceId, channelId, preferences) ==
    LET created == GetOrCreate(table, userId, workspaceId)
        id == PreferenceIndex(created, userId, workspaceId)
        channelPrefs == created[id].channelPreferences
        existing == {i \in 1..Len(channelPrefs) : channelPrefs[i].channelId = channelId}
        existingIndex == IF existing = {} THEN 0
                         ELSE CHOOSE i \in existing : \A j \in existing : i <= j
        channelUpdate == ChannelUpdate(channelId, preferences)
        merged == IF existingIndex > 0
                  THEN [channelPrefs EXCEPT
                           ![existingIndex] = Spread(channelPrefs[existingIndex],
                                                     channelUpdate)]
                  ELSE Append(channelPrefs, channelUpdate)
    IN [created EXCEPT ![id].channelPreferences = merged]

\* createDefaults: currentUserId is the signed-in user
CreateDefaults(currentUserId, userId, workspaceId) ==
    /\ IF \/ currentUserId = Undefined \/ currentUserId # userId
          \/ UniqueThrows(PreferencesOf(notificationPreferences, userId, workspaceId))
       THEN /\ UNCHANGED notificationPreferences
            /\ last' = [op |-> "createDefaults", threw |-> TRUE]
       ELSE /\ notificationPreferences' =
                  CreateDefaultsTable(notificationPreferences, userId, workspaceId)
            /\ last' = [op |-> "createDefaults", threw |-> FALSE, userId |-> userId,
                        workspaceId |-> workspaceId]
    /\ UNCHANGED <<notifications, messages, now, inflight>>

\* updateGlobal
UpdateGlobal(currentUserId, userId, workspaceId, preferences) ==
    /\ IF \/ currentUserId = Undefined \/ currentUserId # userId
          \/ UniqueThrows(PreferencesOf(notificationPreferences, userId, workspaceId))
       THEN /\ UNCHANGED notificationPreferences
            /\ last' = [op |-> "updateGlobal", threw |-> TRUE]
       ELSE /\ notificationPreferences' =
                  UpdateGlobalTable(notificationPreferences, userId, workspaceId,
                                    preferences)
            /\ last' = [op |-> "updateGlobal", threw |-> FALSE, userId |-> userId,
                        workspaceId |-> workspaceId, preferences |-> preferences]
    /\ UNCHANGED <<notifications, messages, now, inflight>>

\* updateChannel
UpdateChannel(currentUserId, userId, workspaceId, channelId, preferences) ==
    /\ IF \/ currentUserId = Undefined \/ currentUserId # userId
          \/ UniqueThrows(PreferencesOf(notificationPreferences, userId, workspaceId))
       THEN /\ UNCHANGED notificationPreferences
            /\ last' = [op |-> "updateChannel", threw |-> TRUE]
       ELSE /\ notificationPreferences' =
                  UpdateChannelTable(notificationPreferences, userId, workspaceId,
                                     channelId, preferences)
            /\ last' = [op |-> "updateChannel", threw |-> FALSE, userId |-> userId,
                        workspaceId |-> workspaceId, channelId |-> channelId,
                        preferences |-> preferences,
                        before |-> notificationPreferences]
    /\ UNCHANGED <<notifications, messages, now, inflight>>

(***************************************************************************)
(* messages.create.  A mutation is a transaction: when the handler throws, *)
(* none of its writes is kept.                                             *)
(***************************************************************************)
\* the message with the given id: <<doc>>, or <<>> when ctx.db.get returns null
GetMessage(table, id) == SelectSeq(table, LAMBDA m : m._id = id)

\* _conversationId of messages.create
ResolvedConversationId(table, args) ==
    IF /\ args.conversationId = Undefined /\ args.channelId = Undefined
       /\ args.parentMessageId # Undefined /\ GetMessage(table, args.parentMessageId) # <<>>
    THEN GetMessage(table, args.parentMessageId)[1].conversationId
    ELSE args.conversationId

\* the error messages.create throws before it inserts the message, "" for none
CreateError(table, userId, args) ==
    IF userId = Undefined THEN "Unauthorized"
    ELSE IF GetMember(args.workspaceId, userId) = <<>> THEN "Unauthorized"
    ELSE IF /\ args.conversationId = Undefined /\ args.channelId = Undefined
            /\ args.parentMessageId # Undefined
            /\ GetMessage(table, args.parentMessageId) = <<>>
    THEN "Parent message not found"
    ELSE ""

Create(userId, args, messageId, failing) ==
    LET error == CreateError(messages, userId, args)
        member == GetMember(args.workspaceId, userId)[1]
        conversationId == ResolvedConversationId(messages, args)
        message == [_id |-> messageId, memberId |-> member._id, body |-> args.body,
                    channelId |-> args.channelId, conversationId |-> conversationId,
                    workspaceId |-> args.workspaceId,
                    parentMessageId |-> args.parentMessageId]
        dispatch == HandleMentionNotifications(notificationPreferences, messageId,
                                               message, userId, now, failing)
    IN /\ GetMessage(messages, messageId) = <<>>
       /\ IF error # ""
          THEN /\ UNCHANGED <<messages, notifications>>
               /\ last' = [op |-> "create", threw |-> TRUE, error |-> error,
                           userId |-> userId, workspaceId |-> args.workspaceId]
          ELSE IF dispatch.threw
          THEN /\ UNCHANGED <<messages, notifications>>
               /\ last' = [op |-> "create", threw |-> TRUE, error |-> "store",
                           userId |-> userId, workspaceId |-> args.workspaceId,
                           failing |-> failing,
                           mentionedUserIds |-> dispatch.mentionedUserIds]
          ELSE /\ messages' = Append(messages, message)
               /\ notifications' = notifications \o dispatch.rows
               /\ last' = [op |-> "create", threw |-> FALSE, error |-> "",
                           userId |-> userId, args |-> args, failing |-> failing,
                           messageId |-> messageId,
                           mentionedUserIds |-> dispatch.mentionedUserIds]
       /\ UNCHANGED <<notificationPreferences, now, inflight>>

\* time passes
Tick ==
    /\ \E t \in Instants : t > now /\ now' = t
    /\ last' = [op |-> "tick"]
    /\ UNCHANGED <<notificationPreferences, notifications, messages, inflight>>

\* the preference tables that at most n successful calls of createDefaults,
\* updateGlobal and updateChannel by the owners produce from the empty table;
\* channels is a set of <<channelId, preferences>> arguments of updateChannel
RECURSIVE ReachableTables(_, _, _, _)
ReachableTables(n, owners, globals, channels) ==
    IF n = 0 THEN {<<>>}
    ELSE LET S == ReachableTables(n - 1, owners, globals, channels)
         IN S \cup {CreateDefaultsTable(t, o[1], o[2]) : t \in S, o \in owners}
              \cup {UpdateGlobalTable(t, o[1], o[2], p) :
                       t \in S, o \in owners, p \in globals}
              \cup {UpdateChannelTable(t, o[1], o[2], c[1], c[2]) :
                       t \in S, o \in owners, c \in channels}

\* The dispatch of a message, from every preference table that at most
\* MaxPreferenceWrites preference mutations produce.
Init ==
    /\ notificationPreferences \in
          ReachableTables(MaxPreferenceWrites, PreferenceOwners, GlobalUpdates,
                          {"c1"} \X ChannelUpdates)
    /\ notifications = <<>>
    /\ messages = <<>>
    /\ now = 9 * 60
    /\ last = [op |-> "init"]
    /\ inflight = <<>>

Next ==
    \/ \E userId \in Callers, args \in CreateArgs, messageId \in MessageIds,
          failing \in Failing : Create(userId, args, messageId, failing)
    \/ Tick

Spec == Init /\ [][Next]_vars

(***************************************************************************)
(* The preference evaluator as a query: shouldSendNotification is applied  *)
(* to the preference tables one user's mutations produce.                  *)
(***************************************************************************)
EvalOwners == {<<"u2", "w1">>}

EvalGlobalUpdates ==
    {[mentions |-> FALSE], [directMessages |-> FALSE], [quietHours |-> QuietHoursArg]}

EvalChannelUpdates ==
    {"c1"} \X {[mentions |-> "enabled"], [mentions |-> "disabled"],
               [mentions |-> "inherit"], [allMessages |-> "enabled"],
               [mutedUntil |-> MuteUntil]}

NotificationTypes == {"mention", "direct_message", "all_messages"}

\* shouldSendNotification (query)
ShouldSendNotificationQuery(userId, workspaceId, channelId, notificationType) ==
    /\ IF UniqueThrows(PreferencesOf(notificationPreferences, userId, workspaceId))
       THEN last' = [op |-> "shouldSendNotification", threw |-> TRUE]
       ELSE last' = [op |-> "shouldSendNotification", threw |-> FALSE,
                     userId |-> userId, workspaceId |-> workspaceId,
                     channelId |-> channelId, notificationType |-> notificationType,
                     result |-> ShouldSendNotification(notificationPreferences, userId,
                                                       workspaceId, channelId,
                                                       notificationType, now)]
    /\ UNCHANGED <<notificationPreferences, notifications, messages, now, inflight>>

InitEval ==
    /\ notificationPreferences \in
          ReachableTables(MaxEvalWrites, EvalOwners, EvalGlobalUpdates,
                          EvalChannelUpdates)
    /\ notifications = <<>>
    /\ messages = <<>>
    /\ now = 9 * 60
    /\ last = [op |-> "init"]
    /\ inflight = <<>>

NextEval ==
    \/ \E userId \in {"u2", "u3"}, workspaceId \in Workspaces,
          channelId \in Channels \cup {Undefined}, notificationType \in NotificationTypes :
          ShouldSendNotificationQuery(userId, workspaceId, channelId, notificationType)
    \/ Tick

SpecEval == InitEval /\ [][NextEval]_vars

(***************************************************************************)
(* Mention extraction applied to every text of at most MaxTextLength       *)
(* characters over TextAlphabet.                                           *)
(***************************************************************************)
TextAlphabet == {"a", "b", "1", ".", "-", "_", "@", " "}

Texts == UNION {[1..n -> TextAlphabet] : n \in 0..MaxTextLength}

\* step 1 of handleMentionNotifications: the usernames the dispatcher extracts
DispatcherExtracts ==
    /\ last.op = "text"
    /\ last' = [op |-> "dispatcherExtract", text |-> last.text,
                mentionedUsernames |-> MessagesExtractMentions(last.text)]
    /\ UNCHANGED <<notificationPreferences, notifications, messages, now, inflight>>

\* extractMentions of src/lib/mentions.ts applied to the text
LibraryExtracts ==
    /\ last.op = "text"
    /\ last' = [op |-> "extractMentions", text |-> last.text,
                usernames |-> ExtractMentions(last.text)]
    /\ UNCHANGED <<notificationPreferences, notifications, messages, now, inflight>>

InitExtract ==
    /\ notificationPreferences = <<>>
    /\ notifications = <<>>
    /\ messages = <<>>
    /\ now = 9 * 60
    /\ \E text \in Texts : last = [op |-> "text", text |-> text]
    /\ inflight = <<>>

NextExtract == DispatcherExtracts \/ LibraryExtracts

SpecExtract == InitExtract /\ [][NextExtract]_vars

(***************************************************************************)
(* Properties.                                                             *)
(***************************************************************************)
\* the last call was a messages.create that inserted its message
Dispatched == last.op = "create" /\ ~last.threw

\* the number of notification rows of user u for the message just created
CountRows(u) ==
    Cardinality({i \in 1..Len(notifications) :
                    /\ notifications[i].messageId = last.messageId
                    /\ notifications[i].userId = u})

\* the preference record of u in workspace w: the stored one, else the implicit default
RecordOf(u, w) ==
    IF PreferencesOf(notificationPreferences, u, w) = <<>>
    THEN CreateDefaultPreferences(u, w)
    ELSE PreferencesOf(notificationPreferences, u, w)[1]

\* minutes since midnight of an "HH:mm" string
MinuteOfDay(hhmm) ==
    (DigitValue(hhmm[1]) * 10 + DigitValue(hhmm[2])) * 60
    + DigitValue(hhmm[4]) * 10 + DigitValue(hhmm[5])

\* quiet hours are enabled and instant t lies in [startTime, endTime) of the daily clock
InQuietWindow(quietHours, t) ==
    LET m == t % (24 * 60)
        start == MinuteOfDay(quietHours.startTime)
        end == MinuteOfDay(quietHours.endTime)
    IN /\ quietHours.enabled
       /\ IF start > end THEN m >= start \/ m < end ELSE start <= m /\ m < end

\* the entries of channel c in the record of u
EntriesOf(u, w, c) ==
    SelectSeq(RecordOf(u, w).channelPreferences, LAMBDA cp : cp.channelId = c)

\* channel c is muted for u at instant t
Muted(u, w, c, t) ==
    \E i \in 1..Len(EntriesOf(u, w, c)) :
        /\ "mutedUntil" \in DOMAIN EntriesOf(u, w, c)[i]
        /\ EntriesOf(u, w, c)[i].mutedUntil > t

\* the mentions override of channel c in the record of u ("none" without an entry)
OverrideOf(u, w, c) ==
    IF c = Undefined \/ EntriesOf(u, w, c) = <<>> THEN "none"
    ELSE EntriesOf(u, w, c)[1].mentions

\* what the layered preferences say about a mention in channel c
OverrideDecision(u, w, c) ==
    CASE OverrideOf(u, w, c) = "enabled" -> TRUE
      [] OverrideOf(u, w, c) = "disabled" -> FALSE
      [] OTHER -> RecordOf(u, w).globalPreferences.mentions

\* the users the dispatcher resolved for the message just created
Resolved == {last.mentionedUserIds[i] : i \in 1..Len(last.mentionedUserIds)}

\* C1: a recipient whose record has quiet hours enabled and for whom the current
\* time lies inside the window gets no notification from the dispatch, whatever
\* the rest of the record says.
C1_QuietHoursSilenceDispatch ==
    Dispatched =>
        \A u \in Users :
            InQuietWindow(RecordOf(u, last.args.workspaceId).globalPreferences.quietHours,
                          now)
                => CountRows(u) = 0

\* C2: for a resolved recipient other than the author, in a channel that is not
\* muted and outside quiet hours, the dispatcher follows the channel override:
\* 'enabled' notifies even with global mentions off, 'disabled' does not notify
\* even with global mentions on, 'inherit' or no entry leaves it to the global value.
C2_DispatchFollowsChannelOverride ==
    (Dispatched /\ last.args.channelId # Undefined) =>
        \A u \in Resolved :
            LET w == last.args.workspaceId
                c == last.args.channelId
            IN (/\ u # last.userId
                /\ ~Muted(u, w, c, now)
                /\ ~InQuietWindow(RecordOf(u, w).globalPreferences.quietHours, now))
                   => ((CountRows(u) > 0) <=> OverrideDecision(u, w, c))

\* the users the preference check of the dispatcher lets through for the message
Allowed ==
    {u \in Resolved :
        /\ u # last.userId
        /\ CheckNotificationPreferences(notificationPreferences, u,
                                        last.args.workspaceId, last.args.channelId, now)}

\* the message row just inserted
CreatedMessage == GetMessage(messages, last.messageId)[1]

\* C5: one messages.create inserts exactly one row (type 'mention', unread, with the
\* message's id, workspace, channel and conversation) for each resolved member who
\* is not the author and passes the preference check, and no row for anyone else.
C5_OneRowPerAllowedRecipient ==
    Dispatched =>
        /\ \A u \in Users : CountRows(u) = IF u \in Allowed THEN 1 ELSE 0
        /\ Len(notifications) = Cardinality(Allowed)
        /\ \A i \in 1..Len(notifications) :
              /\ notifications[i].type = "mention"
              /\ notifications[i].read = FALSE
              /\ notifications[i].messageId = CreatedMessage._id
              /\ notifications[i].workspaceId = CreatedMessage.workspaceId
              /\ notifications[i].channelId = CreatedMessage.channelId
              /\ notifications[i].conversationId = CreatedMessage.conversationId

\* C5 witness: a dispatch in a channel that resolved the author and two others,
\* notified one of them and denied the other
C5_Witness ==
    /\ Dispatched
    /\ last.args.channelId # Undefined
    /\ last.userId \in Resolved
    /\ Cardinality(Allowed) = 1
    /\ Len(notifications) = 1
    /\ \E u \in Resolved : u # last.userId /\ u \notin Allowed

\* C6: when the store fails for one resolved recipient, the call does not throw and
\* the other recipients that pass the preference check still get their notification.
C6_FailureIsolatedPerRecipient ==
    (/\ last.op = "create"
     /\ last.error \in {"", "store"}
     /\ last.failing # Undefined
     /\ last.failing # last.userId
     /\ \E i \in 1..Len(last.mentionedUserIds) : last.mentionedUserIds[i] = last.failing)
        => /\ ~last.threw
           /\ \A u \in Allowed \ {last.failing} : CountRows(u) = 1

\* a member's derived handles: the profile name and the local part of the e-mail
HandleMatches(u, username) ==
    \/ ToLowerCase(UserDoc(u).name) = ToLowerCase(username)
    \/ ToLowerCase(BeforeFirst(UserDoc(u).email, "@")) = ToLowerCase(username)

\* the users that are members of workspace w
MemberUsers(w) == {Members[i].userId : i \in {j \in 1..Len(Members) : Members[j].workspaceId = w}}

\* the usernames the dispatcher extracted from the body of the message just created
Mentions ==
    {MessagesExtractMentions(last.args.body)[i] :
        i \in 1..Len(MessagesExtractMentions(last.args.body))}

\* C8: a mention whose username equals, ignoring case, the profile name or the
\* e-mail local part of a member of the workspace resolves such a member.
C8_ResolutionByHandleIgnoringCase ==
    Dispatched =>
        \A username \in Mentions :
            (\E u \in MemberUsers(last.args.workspaceId) : HandleMatches(u, username))
                => \E u \in Resolved : HandleMatches(u, username)

MemberPosition(u, w) ==
    CHOOSE i \in 1..Len(Members) : Members[i].userId = u /\ Members[i].workspaceId = w

C10_NoSelfNotification ==
    Dispatched =>
        /\ CountRows(last.userId) = 0
        /\ \A i \in 1..Len(notifications) : notifications[i].userId # last.userId
        /\ \A u \in Allowed : CountRows(u) >= 1

\* C10 witness: the author mentioned themselves together with a member who was notified
C10_Witness ==
    /\ Dispatched
    /\ last.userId \in Resolved
    /\ \E u \in Resolved : u # last.userId /\ CountRows(u) = 1

\* the last call was a shouldSendNotification query that returned
Answered == last.op = "shouldSendNotification" /\ ~last.threw

\* C3: for category 'mention', outside quiet hours and with the channel not muted,
\* shouldSendNotification returns TRUE for override 'enabled' (even with global
\* mentions off), FALSE for 'disabled' (even with global mentions on), and the
\* global mentions value for 'inherit', for no entry and for no channelId.
C3_MentionOverridePrecedence ==
    (/\ Answered
     /\ last.notificationType = "mention"
     /\ ~InQuietWindow(RecordOf(last.userId, last.workspaceId).globalPreferences.quietHours,
                       now)
     /\ (last.channelId = Undefined
         \/ ~Muted(last.userId, last.workspaceId, last.channelId, now)))
        => last.result = OverrideDecision(last.userId, last.workspaceId, last.channelId)

\* C3 witness: global mentions off, the channel's override 'enabled', answer TRUE
C3_Witness ==
    /\ Answered
    /\ last.notificationType = "mention"
    /\ ~RecordOf(last.userId, last.workspaceId).globalPreferences.mentions
    /\ OverrideOf(last.userId, last.workspaceId, last.channelId) = "enabled"
    /\ last.result = TRUE

\* C4: inside enabled quiet hours shouldSendNotification returns FALSE for every
\* notification type, channelId and channel-preference content.
C4_QuietHoursDenyEveryQuery ==
    (/\ Answered
     /\ InQuietWindow(RecordOf(last.userId, last.workspaceId).globalPreferences.quietHours,
                      now))
        => last.result = FALSE

\* C4 witness: inside quiet hours a mention in a channel whose override is 'enabled'
\* and that is not muted is denied
C4_Witness ==
    /\ Answered
    /\ InQuietWindow(RecordOf(last.userId, last.workspaceId).globalPreferences.quietHours,
                     now)
    /\ last.notificationType = "mention"
    /\ OverrideOf(last.userId, last.workspaceId, last.channelId) = "enabled"
    /\ ~Muted(last.userId, last.workspaceId, last.channelId, now)
    /\ last.result = FALSE

\* the set of the elements of a sequence
Range(s) == {s[i] : i \in 1..Len(s)}

\* C7: the usernames the dispatcher extracts from a body are those extractMentions
\* of the mention extractor returns for it.
C7_DispatcherExtractsByGrammar ==
    last.op = "dispatcherExtract"
        => Range(last.mentionedUsernames) = Range(ExtractMentions(last.text))


(***************************************************************************)
(* Properties of the notification rows.                                    *)
(***************************************************************************)
\* C11: every notification row has exactly one of channelId and conversationId.
C11_ExactlyOneOfChannelConversation ==
    \A i \in 1..Len(notifications) :
        (notifications[i].channelId # Undefined)
            # (notifications[i].conversationId # Undefined)


(***************************************************************************)
(* The notification store: notifications.create, the three read-marking    *)
(* mutations and the dispatch of one message.  A notification's _id is its *)
(* position in the table.                                                  *)
(***************************************************************************)
MaxNotifications == 2

\* the signed-in user of a notifications call (Undefined: nobody is signed in)
NotificationCallers == {"u1", "u2", Undefined}

\* arguments of notifications.create
NotificationArgs ==
    [userId : {"u1", "u2"}, messageId : MessageIds, workspaceId : {"w1"},
     channelId : {"c1"}, conversationId : {Undefined, "d1"}, type : {"mention"}]
    \cup [userId : {"u1", "u2"}, messageId : MessageIds, workspaceId : {"w1"},
          channelId : {Undefined}, conversationId : {"d1"}, type : {"mention"}]

\* ctx.db.patch(id, { read: true }) that flips the flag instead of setting it
PatchReadToggling(notification) == [notification EXCEPT !.read = ~notification.read]

\* ctx.db.patch(id, { read: true })
PatchRead(notification) == [notification EXCEPT !.read = TRUE]

\* notifications.create
NotificationsCreate(currentUserId, args) ==
    /\ Len(notifications) < MaxNotifications
    /\ IF currentUserId = Undefined
       THEN /\ UNCHANGED notifications
            /\ last' = [op |-> "notifications.create", threw |-> TRUE]
       ELSE /\ notifications' =
                  Append(notifications,
                         [userId |-> args.userId, messageId |-> args.messageId,
                          workspaceId |-> args.workspaceId,
                          channelId |-> args.channelId,
                          conversationId |-> args.conversationId,
                          type |-> args.type, read |-> FALSE, createdAt |-> now])
            /\ last' = [op |-> "notifications.create", threw |-> FALSE,
                        notificationId |-> Len(notifications) + 1]
    /\ UNCHANGED <<notificationPreferences, messages, now, inflight>>

\* markAsRead
MarkAsRead(currentUserId, notificationId) ==
    /\ IF \/ currentUserId = Undefined
          \/ notificationId > Len(notifications)
          \/ notifications[notificationId].userId # currentUserId
       THEN /\ UNCHANGED notifications
            /\ last' = [op |-> "markAsRead", threw |-> TRUE]
       ELSE /\ notifications' =
                  [notifications EXCEPT
                      ![notificationId] = PatchRead(notifications[notificationId])]
            /\ last' = [op |-> "markAsRead", threw |-> FALSE,
                        notificationId |-> notificationId,
                        wasRead |-> notifications[notificationId].read]
    /\ UNCHANGED <<notificationPreferences, messages, now, inflight>>

\* markChannelAsRead
MarkChannelAsRead(currentUserId, userId, channelId) ==
    LET unreadNotifications ==
            {i \in 1..Len(notifications) :
                /\ notifications[i].userId = userId /\ ~notifications[i].read
                /\ notifications[i].channelId = channelId}
    IN /\ IF currentUserId = Undefined \/ currentUserId # userId
          THEN /\ UNCHANGED notifications
               /\ last' = [op |-> "markChannelAsRead", threw |-> TRUE]
          ELSE /\ notifications' =
                     [i \in 1..Len(notifications) |->
                         IF i \in unreadNotifications
                         THEN PatchRead(notifications[i]) ELSE notifications[i]]
               /\ last' = [op |-> "markChannelAsRead", threw |-> FALSE,
                           count |-> Cardinality(unreadNotifications)]
       /\ UNCHANGED <<notificationPreferences, messages, now, inflight>>

\* markConversationAsRead
MarkConversationAsRead(currentUserId, userId, conversationId) ==
    LET unreadNotifications ==
            {i \in 1..Len(notifications) :
                /\ notifications[i].userId = userId /\ ~notifications[i].read
                /\ notifications[i].conversationId = conversationId}
    IN /\ IF currentUserId = Undefined \/ currentUserId # userId
          THEN /\ UNCHANGED notifications
               /\ last' = [op |-> "markConversationAsRead", threw |-> TRUE]
          ELSE /\ notifications' =
                     [i \in 1..Len(notifications) |->
                         IF i \in unreadNotifications
                         THEN PatchRead(notifications[i]) ELSE notifications[i]]
               /\ last' = [op |-> "markConversationAsRead", threw |-> FALSE,
                           count |-> Cardinality(unreadNotifications)]
       /\ UNCHANGED <<notificationPreferences, messages, now, inflight>>

\* the messages whose dispatch is interleaved with the notification calls
DispatchedArgs == {args \in CreateArgs : Len(args.body) = 3 /\ args.workspaceId = "w1"}

InitNotifications ==
    /\ notificationPreferences = <<>>
    /\ notifications = <<>>
    /\ messages = <<>>
    /\ now = 9 * 60
    /\ last = [op |-> "init"]
    /\ inflight = <<>>

NextNotifications ==
    \/ \E currentUserId \in NotificationCallers, args \in NotificationArgs :
          NotificationsCreate(currentUserId, args)
    \/ \E currentUserId \in NotificationCallers, notificationId \in 1..(MaxNotifications + 1) :
          MarkAsRead(currentUserId, notificationId)
    \/ \E currentUserId \in NotificationCallers, userId \in {"u1", "u2"},
          channelId \in Channels :
          MarkChannelAsRead(currentUserId, userId, channelId)
    \/ \E currentUserId \in NotificationCallers, userId \in {"u1", "u2"},
          conversationId \in Conversations :
          MarkConversationAsRead(currentUserId, userId, conversationId)
    \/ \E args \in DispatchedArgs, messageId \in MessageIds :
          Create("u1", args, messageId, Undefined)

SpecNotifications == InitNotifications /\ [][NextNotifications]_vars

\* C12: no step removes a notification row or changes anything of a row but its
\* read flag, and a row that is read stays read (so marking a read row again
\* leaves it read).
C12_ReadMonotonicNoDeletion ==
    [][/\ Len(notifications') >= Len(notifications)
       /\ \A i \in 1..Len(notifications) :
             /\ notifications[i].read => notifications'[i].read
             /\ [notifications'[i] EXCEPT !.read = FALSE]
                   = [notifications[i] EXCEPT !.read = FALSE]]_vars

\* C12 witness: markAsRead succeeded on a row that was already read, and it is read
C12_Witness ==
    /\ last.op = "markAsRead" /\ ~last.threw
    /\ last.wasRead
    /\ notifications[last.notificationId].read


(***************************************************************************)
(* The reads of the preference store: shouldSendNotification,              *)
(* getByUserWorkspace and the dispatch of a message, applied to the        *)
(* preference tables one user's mutations produce.                         *)
(***************************************************************************)
\* the channel updates of the evaluator, and a mute that ends at the first instant
ReadChannelUpdates == EvalChannelUpdates \cup {<<"c1", [mutedUntil |-> 9 * 60]>>}

\* the messages sent while the preferences are read
ReadArgs ==
    {args \in CreateArgs :
        /\ args.workspaceId = "w1"
        /\ args.body \in {<<"@", "b", "o">>, <<"@", "a", "l", " ", "@", "b", "o">>}}

\* getByUserWorkspace (query): <<>> is null
GetByUserWorkspace(currentUserId, userId, workspaceId) ==
    LET preferences == PreferencesOf(notificationPreferences, userId, workspaceId)
    IN /\ IF currentUserId = Undefined \/ currentUserId # userId
          THEN last' = [op |-> "getByUserWorkspace", threw |-> FALSE,
                        userId |-> userId, workspaceId |-> workspaceId,
                        result |-> <<>>]
          ELSE IF UniqueThrows(preferences)
          THEN last' = [op |-> "getByUserWorkspace", threw |-> TRUE]
          ELSE last' = [op |-> "getByUserWorkspace", threw |-> FALSE,
                        userId |-> userId, workspaceId |-> workspaceId,
                        result |-> IF preferences = <<>>
                                   THEN <<CreateDefaultPreferences(userId, workspaceId)>>
                                   ELSE preferences]
       /\ UNCHANGED <<notificationPreferences, notifications, messages, now, inflight>>

InitReads ==
    /\ notificationPreferences \in
          ReachableTables(MaxEvalWrites, EvalOwners, EvalGlobalUpdates,
                          ReadChannelUpdates)
    /\ notifications = <<>>
    /\ messages = <<>>
    /\ now = 9 * 60
    /\ last = [op |-> "init"]
    /\ inflight = <<>>

NextReads ==
    \/ \E userId \in {"u2", "u3"}, workspaceId \in Workspaces,
          channelId \in Channels \cup {Undefined}, notificationType \in NotificationTypes :
          ShouldSendNotificationQuery(userId, workspaceId, channelId, notificationType)
    \/ \E currentUserId \in {"u2", "u3", Undefined}, userId \in {"u2", "u3"} :
          GetByUserWorkspace(currentUserId, userId, "w1")
    \/ \E args \in ReadArgs, messageId \in MessageIds :
          Create("u1", args, messageId, Undefined)
    \/ Tick

SpecReads == InitReads /\ [][NextReads]_vars

\* a record without the mutedUntil of its channel entries
WithoutMute(doc) ==
    [doc EXCEPT !.channelPreferences =
        [i \in 1..Len(doc.channelPreferences) |->
            [f \in DOMAIN doc.channelPreferences[i] \ {"mutedUntil"} |->
                doc.channelPreferences[i][f]]]]

\* the preference table with every mute removed
Unmuted == [i \in 1..Len(notificationPreferences) |-> WithoutMute(notificationPreferences[i])]

\* C13: a channel entry whose mutedUntil is strictly after the current time makes
\* shouldSendNotification return FALSE and keeps the dispatcher from inserting a
\* row, whatever the entry's override; a mutedUntil at or before the current
\* time, or none, changes no answer: the decision is the one taken without it.
C13_MuteSuppressesUntilItExpires ==
    /\ (Answered /\ last.channelId # Undefined) =>
          IF Muted(last.userId, last.workspaceId, last.channelId, now)
          THEN last.result = FALSE
          ELSE last.result = ShouldSendNotification(Unmuted, last.userId,
                                                    last.workspaceId, last.channelId,
                                                    last.notificationType, now)
    /\ (Dispatched /\ last.args.channelId # Undefined) =>
          \A u \in Resolved \ {last.userId} :
              IF Muted(u, last.args.workspaceId, last.args.channelId, now)
              THEN CountRows(u) = 0
              ELSE (CountRows(u) = 1)
                      <=> CheckNotificationPreferences(Unmuted, u, last.args.workspaceId,
                                                       last.args.channelId, now)

\* C13 witness: the recipient has mentions on, the channel's override 'enabled'
\* and a mute that has not ended, and the dispatch inserted no row for them
C13_Witness ==
    /\ Dispatched
    /\ last.args.channelId # Undefined
    /\ \E u \in Resolved \ {last.userId} :
          /\ Muted(u, last.args.workspaceId, last.args.channelId, now)
          /\ OverrideOf(u, last.args.workspaceId, last.args.channelId) = "enabled"
          /\ RecordOf(u, last.args.workspaceId).globalPreferences.mentions
          /\ CountRows(u) = 0


\* the last call was a getByUserWorkspace by the owner that returned
Fetched == last.op = "getByUserWorkspace" /\ ~last.threw /\ last.result # <<>>

\* (userId, workspaceId) has no stored preference record
NoRecord(userId, workspaceId) ==
    PreferencesOf(notificationPreferences, userId, workspaceId) = <<>>

\* what the reads answer for a (user, workspace) without a stored record
MissingRecordIsDefault ==
    /\ (Answered /\ NoRecord(last.userId, last.workspaceId)) =>
          last.result = (last.notificationType \in {"mention", "direct_message"})
    /\ (Fetched /\ NoRecord(last.userId, last.workspaceId)) =>
          /\ last.result[1].userId = last.userId
          /\ last.result[1].workspaceId = last.workspaceId
          /\ last.result[1].globalPreferences.mentions
          /\ last.result[1].globalPreferences.directMessages
          /\ ~last.result[1].globalPreferences.quietHours.enabled
          /\ last.result[1].channelPreferences = <<>>
    /\ Dispatched =>
          \A u \in Resolved \ {last.userId} :
              NoRecord(u, last.args.workspaceId) => CountRows(u) = 1

\* C18: without a stored record shouldSendNotification answers as the default
\* record does (mention and direct_message TRUE, all_messages FALSE),
\* getByUserWorkspace returns the default record, the dispatcher notifies the
\* recipient, and no read or dispatch changes the preference table.
C18_MissingRecordIsDefaultAndReadsDoNotWrite ==
    /\ []MissingRecordIsDefault
    /\ [][notificationPreferences' = notificationPreferences]_vars

\* C18 witness: a dispatch notified a recipient who has no record, and none was stored
C18_Witness ==
    /\ Dispatched
    /\ \E u \in Resolved \ {last.userId} :
          /\ NoRecord(u, last.args.workspaceId)
          /\ CountRows(u) = 1


(***************************************************************************)
(* The preference mutations createDefaults, updateGlobal and updateChannel *)
(* called in any order.  The arguments are drawn from finite sets and the  *)
(* mutations are idempotent, so the tables they reach are finitely many.   *)
(***************************************************************************)
\* the signed-in user of a preference mutation (Undefined: nobody is signed in)
PreferenceCallers == {"u2", "u3", Undefined}

\* preferences argument of updateGlobal
GlobalArgs == GlobalUpdates \cup {[sound |-> FALSE]}

\* preferences argument of updateChannel
ChannelArgs ==
    ChannelUpdates
    \cup {[mutedUntil |-> Null], [allMessages |-> "enabled"],
          [mentions |-> "enabled", mutedUntil |-> MuteUntil]}

InitPreferences ==
    /\ notificationPreferences = <<>>
    /\ notifications = <<>>
    /\ messages = <<>>
    /\ now = 9 * 60
    /\ last = [op |-> "init"]
    /\ inflight = <<>>

NextPreferences ==
    \/ \E currentUserId \in PreferenceCallers : CreateDefaults(currentUserId, "u2", "w1")
    \/ \E currentUserId \in PreferenceCallers, preferences \in GlobalArgs :
          UpdateGlobal(currentUserId, "u2", "w1", preferences)
    \/ \E currentUserId \in PreferenceCallers, channelId \in Channels,
          preferences \in ChannelArgs :
          UpdateChannel(currentUserId, "u2", "w1", channelId, preferences)

SpecPreferences == InitPreferences /\ [][NextPreferences]_vars

\* the last call was an updateChannel that returned
ChannelUpdated == last.op = "updateChannel" /\ ~last.threw

\* the entry of the updated channel after the call
EntryAfter ==
    FindChannelPref(RecordOf(last.userId, last.workspaceId).channelPreferences,
                    last.channelId)

\* the record of the updated (user, workspace) before the call: <<doc>>, or <<>>
RecordBefore == PreferencesOf(last.before, last.userId, last.workspaceId)

\* the entry of the updated channel before the call: <<entry>>, or <<>>
EntryBefore ==
    IF RecordBefore = <<>> THEN <<>>
    ELSE FindChannelPref(RecordBefore[1].channelPreferences, last.channelId)

\* C14: after updateChannel with mutedUntil = null the channel's entry carries no
\* mutedUntil, and the mute test no longer denies the channel.
C14_UnmuteClearsMute ==
    (/\ ChannelUpdated
     /\ "mutedUntil" \in DOMAIN last.preferences
     /\ last.preferences.mutedUntil = Null)
        => /\ "mutedUntil" \notin DOMAIN EntryAfter[1]
           /\ ~IsMuted(EntryAfter, now)

\* the fields of a channel entry that updateChannel takes from its argument
EntryFields == {"mentions", "allMessages", "threads", "keywords", "mutedUntil"}

\* field f is the same (present with the same value, or absent) in entries a and b
SameField(a, b, f) ==
    /\ (f \in DOMAIN a) <=> (f \in DOMAIN b)
    /\ f \in DOMAIN a => a[f] = b[f]

\* C15: updateChannel on a channel that has an entry leaves the fields of the
\* entry it was not given unchanged, and leaves the entries of the other
\* channels and the global preferences unchanged.
C15_ChannelUpdateIsFieldMerge ==
    (ChannelUpdated /\ EntryBefore # <<>>) =>
        /\ \A f \in EntryFields \ DOMAIN last.preferences :
              SameField(EntryBefore[1], EntryAfter[1], f)
        /\ \A c \in Channels \ {last.channelId} :
              FindChannelPref(RecordBefore[1].channelPreferences, c)
                 = FindChannelPref(RecordOf(last.userId, last.workspaceId)
                                      .channelPreferences, c)
        /\ RecordOf(last.userId, last.workspaceId).globalPreferences
              = RecordBefore[1].globalPreferences


\* the number of entries of channel c in a preference document
EntryCount(doc, c) ==
    Cardinality({i \in 1..Len(doc.channelPreferences) :
                    doc.channelPreferences[i].channelId = c})

\* C16: the channelPreferences list of every preference record has at most one
\* entry per channelId, and updateChannel on a channel that has an entry
\* replaces it in place: the list keeps its length and the entry its position.
C16_OneEntryPerChannel ==
    /\ \A i \in 1..Len(notificationPreferences) :
          \A c \in Channels : EntryCount(notificationPreferences[i], c) <= 1
    /\ (ChannelUpdated /\ EntryBefore # <<>>) =>
          LET after == RecordOf(last.userId, last.workspaceId).channelPreferences
              before == RecordBefore[1].channelPreferences
          IN /\ Len(after) = Len(before)
             /\ \A k \in 1..Len(before) : after[k].channelId = before[k].channelId

\* C16 witness: updateChannel on a channel that had an entry, in a list of two entries
C16_Witness ==
    /\ ChannelUpdated
    /\ EntryBefore # <<>>
    /\ Len(RecordBefore[1].channelPreferences) = 2
    /\ EntryCount(RecordOf(last.userId, last.workspaceId), last.channelId) = 1


(***************************************************************************)
(* One updateGlobal and one updateChannel of the same user and workspace   *)
(* running concurrently.  A mutation is a transaction of the store: its    *)
(* handler runs against the documents it read when it started; at commit   *)
(* the store applies its writes if those documents are still the same,     *)
(* and runs the handler again if they are not.                             *)
(***************************************************************************)
MaxConcurrentWrites == 1

\* the user and workspace of the two concurrent calls
ConcurrentUser == "u2"
ConcurrentWorkspace == "w1"

\* the documents the by_user_workspace query of a handler returns
ReadSet(table) == PreferencesOf(table, ConcurrentUser, ConcurrentWorkspace)

\* commit-time validation of the store: a document the handler read has changed
Conflicts(read, table) == read # ReadSet(table)

\* updateGlobal writing the whole document, rebuilt from the defaults
GlobalWritesReplacing(table, read, preferences) ==
    LET doc == UpdateGlobalTable(<<>>, ConcurrentUser, ConcurrentWorkspace, preferences)[1]
        id == PreferenceIndex(table, ConcurrentUser, ConcurrentWorkspace)
    IN IF read = <<>> THEN Append(table, doc)
       ELSE [table EXCEPT ![id] = doc]

\* the writes of updateGlobal computed from the documents it read: the insert of
\* the default document when there was none, and the patch of globalPreferences
GlobalWrites(table, read, preferences) ==
    LET doc == UpdateGlobalTable(read, ConcurrentUser, ConcurrentWorkspace, preferences)[1]
        id == PreferenceIndex(table, ConcurrentUser, ConcurrentWorkspace)
    IN IF read = <<>> THEN Append(table, doc)
       ELSE [table EXCEPT ![id].globalPreferences = doc.globalPreferences]

\* the writes of updateChannel computed from the documents it read: the insert of
\* the default document when there was none, and the patch of channelPreferences
ChannelWrites(table, read, channelId, preferences) ==
    LET doc == UpdateChannelTable(read, ConcurrentUser, ConcurrentWorkspace,
                                  channelId, preferences)[1]
        id == PreferenceIndex(table, ConcurrentUser, ConcurrentWorkspace)
    IN IF read = <<>> THEN Append(table, doc)
       ELSE [table EXCEPT ![id].channelPreferences = doc.channelPreferences]

ConcurrentCalls == {"updateGlobal", "updateChannel"}

\* the handler of call r starts: it reads the preference documents
StartCall(r) ==
    /\ inflight[r].pc = "pending"
    /\ inflight' = [inflight EXCEPT
                       ![r].pc = "running",
                       ![r].read = ReadSet(notificationPreferences),
                       ![r].first = IF inflight[r].retries = 0
                                    THEN ReadSet(notificationPreferences) ELSE @]
    /\ last' = [op |-> "start", call |-> r]
    /\ UNCHANGED <<notificationPreferences, notifications, messages, now>>

\* the store found the documents of call r changed: the handler will run again
RetryCall(r) ==
    /\ inflight[r].pc = "running"
    /\ Conflicts(inflight[r].read, notificationPreferences)
    /\ inflight' = [inflight EXCEPT ![r].pc = "pending", ![r].retries = @ + 1]
    /\ last' = [op |-> "retry", call |-> r]
    /\ UNCHANGED <<notificationPreferences, notifications, messages, now>>

\* updateGlobal commits
CommitGlobal ==
    /\ inflight.updateGlobal.pc = "running"
    /\ ~Conflicts(inflight.updateGlobal.read, notificationPreferences)
    /\ notificationPreferences' =
          GlobalWrites(notificationPreferences, inflight.updateGlobal.read,
                       inflight.updateGlobal.preferences)
    /\ inflight' = [inflight EXCEPT !.updateGlobal.pc = "done"]
    /\ last' = [op |-> "commit", call |-> "updateGlobal"]
    /\ UNCHANGED <<notifications, messages, now>>

\* updateChannel commits
CommitChannel ==
    /\ inflight.updateChannel.pc = "running"
    /\ ~Conflicts(inflight.updateChannel.read, notificationPreferences)
    /\ notificationPreferences' =
          ChannelWrites(notificationPreferences, inflight.updateChannel.read,
                        inflight.updateChannel.channelId,
                        inflight.updateChannel.preferences)
    /\ inflight' = [inflight EXCEPT !.updateChannel.pc = "done"]
    /\ last' = [op |-> "commit", call |-> "updateChannel"]
    /\ UNCHANGED <<notifications, messages, now>>

InitConcurrent ==
    /\ notificationPreferences \in
          ReachableTables(MaxConcurrentWrites,
                          {<<ConcurrentUser, ConcurrentWorkspace>>}, GlobalArgs,
                          {"c1"} \X ChannelUpdates)
    /\ notifications = <<>>
    /\ messages = <<>>
    /\ now = 9 * 60
    /\ last = [op |-> "init"]
    /\ \E preferences \in GlobalArgs, channelId \in Channels,
          channelPreferences \in ChannelUpdates :
          inflight = [updateGlobal |-> [pc |-> "pending", read |-> <<>>, retries |-> 0,
                                        first |-> <<>>,
                                        preferences |-> preferences,
                                        channelId |-> Undefined],
                      updateChannel |-> [pc |-> "pending", read |-> <<>>, retries |-> 0,
                                         first |-> <<>>,
                                         preferences |-> channelPreferences,
                                         channelId |-> channelId]]

NextConcurrent ==
    \/ \E r \in ConcurrentCalls : StartCall(r)
    \/ \E r \in ConcurrentCalls : RetryCall(r)
    \/ CommitGlobal
    \/ CommitChannel

SpecConcurrent == InitConcurrent /\ [][NextConcurrent]_vars

\* both concurrent calls have committed
BothCommitted ==
    /\ DOMAIN inflight = ConcurrentCalls
    /\ \A r \in ConcurrentCalls : inflight[r].pc = "done"

MaxRunLength == 52
MaxTokens == 3

\* a run of n username characters: `first`, then `filler`s, then `final`
Run(n, first, filler, final) ==
    [i \in 1..n |-> IF i = 1 THEN first ELSE IF i = n THEN final ELSE filler]

\* the runs that match [a-zA-Z][a-zA-Z0-9._-]* and do not end in punctuation
Runs ==
    {Run(n, first, filler, final) :
        n \in 0..MaxRunLength, first \in {"a", "B"},
        filler \in {"a", "1", ".", "-"}, final \in {"b", "1", "_", "-"}}

\* the words of a text, each with the username it mentions (<<>>: none)
Tokens ==
    {[text |-> <<"@", "a", "l">>, name |-> <<"a", "l">>],
     [text |-> <<"@", "b", "o">>, name |-> <<"b", "o">>],
     [text |-> <<"@", "a", "l", ".">>, name |-> <<"a", "l">>],
     [text |-> <<"@", "b">>, name |-> <<>>],
     [text |-> <<"x", "@", "b", "o">>, name |-> <<>>],
     [text |-> <<"h", "i">>, name |-> <<>>]}

\* the words joined by single blanks
RECURSIVE JoinTokens(_)
JoinTokens(tokens) ==
    IF tokens = <<>> THEN <<>>
    ELSE IF Len(tokens) = 1 THEN tokens[1].text
    ELSE JoinTokens(SubSeq(tokens, 1, Len(tokens) - 1)) \o <<" ">> \o tokens[Len(tokens)].text

TokenLists == UNION {[1..n -> Tokens] : n \in 1..MaxTokens}

\* extractMentions(text) is called
ExtractMentionsCall ==
    /\ last.op = "text"
    /\ last' = [op |-> "extractMentions", kind |-> last.kind, text |-> last.text,
                names |-> last.names, usernames |-> ExtractMentions(last.text)]
    /\ UNCHANGED <<notificationPreferences, notifications, messages, now, inflight>>

InitLibrary ==
    /\ notificationPreferences = <<>>
    /\ notifications = <<>>
    /\ messages = <<>>
    /\ now = 9 * 60
    /\ inflight = <<>>
    /\ \/ \E run \in Runs :
             last = [op |-> "text", kind |-> "run", text |-> <<"@">> \o run,
                     names |-> <<>>]
       \/ \E tokens \in TokenLists :
             last = [op |-> "text", kind |-> "words", text |-> JoinTokens(tokens),
                     names |-> [i \in 1..Len(tokens) |-> tokens[i].name]]

NextLibrary == ExtractMentionsCall

SpecLibrary == InitLibrary /\ [][NextLibrary]_vars

\* C19: for '@' followed by a run s of username characters that starts with a
\* letter and does not end in punctuation, extractMentions returns [s] when s has
\* 2 to 50 characters and [] when it has 1 or more than 50; '@' alone gives [].
C19_LengthBoundOnCleanedToken ==
    (last.op = "extractMentions" /\ last.kind = "run") =>
        LET s == SubSeq(last.text, 2, Len(last.text))
        IN last.usernames = IF 2 <= Len(s) /\ Len(s) <= 50 THEN <<s>> ELSE <<>>

\* C19 witness: a run of 51 characters was given and nothing was extracted
C19_Witness ==
    /\ last.op = "extractMentions" /\ last.kind = "run"
    /\ Len(last.text) = 52
    /\ last.usernames = <<>>

\* the index of the first word of the text that mentions username
FirstMention(username) ==
    CHOOSE i \in 1..Len(last.names) :
        /\ last.names[i] = username
        /\ \A j \in 1..(i - 1) : last.names[j] # username

\* C20: the result of extractMentions holds no username twice, holds exactly the
\* usernames mentioned in the text, and lists them in the order of their first
\* occurrence.
C20_UniqueInFirstOccurrenceOrder ==
    /\ last.op = "extractMentions" =>
          \A i, j \in 1..Len(last.usernames) :
              i # j => last.usernames[i] # last.usernames[j]
    /\ (last.op = "extractMentions" /\ last.kind = "words") =>
          /\ Range(last.usernames) = Range(last.names) \ {<<>>}
          /\ \A i, j \in 1..Len(last.usernames) :
                i < j => FirstMention(last.usernames[i]) < FirstMention(last.usernames[j])

\* C20 witness: a username mentioned first and last, another in between; the
\* result lists each once, the repeated one first
C20_Witness ==
    /\ last.op = "extractMentions" /\ last.kind = "words"
    /\ Len(last.names) = 3
    /\ last.names[1] = last.names[3] /\ last.names[1] # <<>>
    /\ last.names[2] # <<>> /\ last.names[2] # last.names[1]
    /\ last.usernames = <<last.names[1], last.names[2]>>


(***************************************************************************)
(* Properties of extractMentions over every text of at most MaxTextLength  *)
(* characters.                                                             *)
(***************************************************************************)
\* isValidMentionUsername
IsValidMentionUsername(username) ==
    IF Len(username) = 0 THEN FALSE
    ELSE IF Len(username) < MinUsernameLength \/ Len(username) > MaxUsernameLength
    THEN FALSE
    ELSE /\ IsLetter(username[1])
         /\ \A i \in 1..Len(username) : IsUsernameChar(username[i])

\* the last call was extractMentions of src/lib/mentions.ts
Extracted == last.op = "extractMentions"

\* the '@' at index i of the text follows a word character
FollowsWordChar(i) == i > 1 /\ IsWordChar(last.text[i - 1])

\* username stands in the text right after the '@' at index i
StandsAt(username, i) ==
    /\ last.text[i] = "@"
    /\ i + Len(username) <= Len(last.text)
    /\ SubSeq(last.text, i + 1, i + Len(username)) = username

\* C21: every username extractMentions returns stands after an '@' that does not
\* follow a word character (so a text whose every '@' follows a word character
\* yields nothing), and an '@' at the start of the text or after a non-word
\* character, followed by a letter and a cleaned run of at least two characters,
\* yields that run.
C21_AtSignInsideWordIsNoMention ==
    Extracted =>
        /\ \A k \in 1..Len(last.usernames) :
              \E i \in 1..Len(last.text) :
                  StandsAt(last.usernames[k], i) /\ ~FollowsWordChar(i)
        /\ \A i \in 1..(Len(last.text) - 1) :
              (/\ last.text[i] = "@" /\ ~FollowsWordChar(i)
               /\ IsLetter(last.text[i + 1])
               /\ Len(StripTrailingPunctuation(MentionRegexCapture(last.text, i))) >= 2)
                  => \E k \in 1..Len(last.usernames) :
                        last.usernames[k]
                           = StripTrailingPunctuation(MentionRegexCapture(last.text, i))

\* C21 witness: 'a@ab' was given, its '@' follows a letter, and nothing was extracted
C21_Witness ==
    /\ Extracted
    /\ last.text = <<"a", "@", "a", "b">>
    /\ last.usernames = <<>>

\* C22: every username extractMentions returns ends in none of . , ! ? ; : and
\* satisfies isValidMentionUsername.
C22_ExtractedUsernamesAreValid ==
    Extracted =>
        \A k \in 1..Len(last.usernames) :
            /\ last.usernames[k][Len(last.usernames[k])] \notin TrailingPunctuation
            /\ IsValidMentionUsername(last.usernames[k])

\* C22 witness: '@ab.' was given and 'ab' was extracted
C22_Witness ==
    /\ Extracted
    /\ last.text = <<"@", "a", "b", ".">>
    /\ last.usernames = <<<<"a", "b">>>>


(***************************************************************************)
(* The editor's use of src/lib/mentions.ts: renderMentions and             *)
(* findMentionAtCursor applied to every text of at most MaxTextLength      *)
(* characters.  Indices of findMentionAtCursor count from 0, as in the     *)
(* source.                                                                 *)
(***************************************************************************)
\* the mentionRenderer the caller passes to renderMentions
MentionRenderer(username) == <<"<">> \o username \o <<">">>

\* cleanUsername.length >= 2 && cleanUsername.length <= 50
IsRenderedLength(cleanUsername) ==
    Len(cleanUsername) >= MinUsernameLength /\ Len(cleanUsername) <= MaxUsernameLength

\* text.replace(mentionRegex, ...) from index p on: the output, and the usernames
\* mentionRenderer was called with
RECURSIVE ReplaceFrom(_, _)
ReplaceFrom(text, p) ==
    IF p > Len(text) THEN [output |-> <<>>, calls |-> <<>>]
    ELSE IF Includes(MentionRegexMatches(text), p)
    THEN LET username == MentionRegexCapture(text, p)
             cleanUsername == StripTrailingPunctuation(username)
             rest == ReplaceFrom(text, p + 1 + Len(username))
         IN IF IsRenderedLength(cleanUsername)
            THEN [output |-> MentionRenderer(cleanUsername) \o rest.output,
                  calls |-> <<cleanUsername>> \o rest.calls]
            ELSE [output |-> <<"@">> \o username \o rest.output, calls |-> rest.calls]
    ELSE LET rest == ReplaceFrom(text, p + 1)
         IN [output |-> <<text[p]>> \o rest.output, calls |-> rest.calls]

\* renderMentions
RenderMentions(text) ==
    IF Len(text) = 0 THEN [output |-> text, calls |-> <<>>] ELSE ReplaceFrom(text, 1)

\* isValidMentionUsernamePartial
IsValidMentionUsernamePartial(partial) ==
    IF Len(partial) = 0 THEN TRUE
    ELSE IF ~IsLetter(partial[1]) THEN FALSE
    ELSE \A i \in 1..Len(partial) : IsUsernameChar(partial[i])

\* the backward scan of findMentionAtCursor: atPosition, -1 when none is found
AtPosition(text, cursorPosition) ==
    LET stops == {i \in 0..(cursorPosition - 1) :
                     text[i + 1] = "@" \/ IsWhitespace(text[i + 1])}
        nearest == CHOOSE i \in stops : \A j \in stops : j <= i
    IN IF stops = {} THEN 0 - 1
       ELSE IF text[nearest + 1] = "@" THEN nearest ELSE 0 - 1

\* findMentionAtCursor: <<>> is null
FindMentionAtCursor(text, cursorPosition) ==
    LET atPosition == AtPosition(text, cursorPosition)
        partialMention == SubSeq(text, atPosition + 2, cursorPosition)
    IN IF Len(text) = 0 \/ cursorPosition < 0 \/ cursorPosition > Len(text) THEN <<>>
       ELSE IF atPosition = 0 - 1 THEN <<>>
       ELSE IF Len(partialMention) > 0 /\ ~IsValidMentionUsernamePartial(partialMention)
       THEN <<>>
       ELSE <<[start |-> atPosition, end |-> cursorPosition,
               username |-> partialMention]>>

\* renderMentions(text, mentionRenderer) is called
RenderMentionsCall ==
    /\ last.op = "text"
    /\ last' = [op |-> "renderMentions", text |-> last.text,
                output |-> RenderMentions(last.text).output,
                calls |-> RenderMentions(last.text).calls]
    /\ UNCHANGED <<notificationPreferences, notifications, messages, now, inflight>>

\* findMentionAtCursor(text, cursorPosition) is called
FindMentionAtCursorCall(cursorPosition) ==
    /\ last.op = "text"
    /\ last' = [op |-> "findMentionAtCursor", text |-> last.text,
                cursorPosition |-> cursorPosition,
                result |-> FindMentionAtCursor(last.text, cursorPosition)]
    /\ UNCHANGED <<notificationPreferences, notifications, messages, now, inflight>>

NextEditor ==
    \/ RenderMentionsCall
    \/ \E cursorPosition \in (0 - 1)..(MaxTextLength + 1) :
          FindMentionAtCursorCall(cursorPosition)

SpecEditor == InitExtract /\ [][NextEditor]_vars


\* the '@' at index p of the text starts a valid mention: it does not follow a
\* word character, a letter follows it, and the run of username characters
\* after it, without its trailing punctuation, has 2 to 50 characters
MentionAt(text, p) ==
    /\ p < Len(text) /\ text[p] = "@"
    /\ (p = 1 \/ ~IsWordChar(text[p - 1]))
    /\ IsLetter(text[p + 1])
    /\ Len(StripTrailingPunctuation(MentionRegexCapture(text, p))) >= 2
    /\ Len(StripTrailingPunctuation(MentionRegexCapture(text, p))) <= 50

\* the text from index p on with each valid '@username' replaced by the
\* renderer's result and every other character kept
RECURSIVE OnlyMentionsReplaced(_, _)
OnlyMentionsReplaced(text, p) ==
    IF p > Len(text) THEN <<>>
    ELSE IF MentionAt(text, p)
    THEN LET username == StripTrailingPunctuation(MentionRegexCapture(text, p))
         IN MentionRenderer(username) \o OnlyMentionsReplaced(text, p + 1 + Len(username))
    ELSE <<text[p]>> \o OnlyMentionsReplaced(text, p + 1)

\* the valid mentions of the text in order, with repeats
MentionsInOrder(text) ==
    LET at == Ascending(Len(text), {p \in 1..Len(text) : MentionAt(text, p)})
    IN [k \in 1..Len(at) |-> StripTrailingPunctuation(MentionRegexCapture(text, at[k]))]

\* C23: renderMentions calls the renderer once per valid mention, in order and
\* with repeats, replaces only '@username' by the renderer's result and keeps
\* every other character, the punctuation after a mention included.
C23_RenderReplacesOnlyMentions ==
    last.op = "renderMentions" =>
        /\ last.calls = MentionsInOrder(last.text)
        /\ last.output = OnlyMentionsReplaced(last.text, 1)

\* the last call was findMentionAtCursor on a non-empty text with the cursor inside
Located ==
    /\ last.op = "findMentionAtCursor"
    /\ Len(last.text) > 0
    /\ 0 <= last.cursorPosition /\ last.cursorPosition <= Len(last.text)

\* the indices (from 0) of the '@'s before the cursor
AtsBeforeCursor == {i \in 0..(last.cursorPosition - 1) : last.text[i + 1] = "@"}

\* the index of the nearest '@' before the cursor
NearestAt == CHOOSE i \in AtsBeforeCursor : \A j \in AtsBeforeCursor : j <= i

\* scanning backward from the cursor, an '@' is reached before whitespace or the start
AtReachedFirst ==
    /\ AtsBeforeCursor # {}
    /\ \A j \in (NearestAt + 1)..(last.cursorPosition - 1) : ~IsWhitespace(last.text[j + 1])

C25_NoTriggerInsideWord ==
    (/\ Located /\ AtReachedFirst
     /\ NearestAt > 0 /\ IsWordChar(last.text[NearestAt]))
        => last.result = <<>>


(***************************************************************************)
(* members.getByUsername: the member search of the mention autocomplete.   *)
(***************************************************************************)
\* limit = args.limit || 10
DefaultLimit == 10

\* String.prototype.trim
RECURSIVE Trim(_)
Trim(s) ==
    IF Len(s) > 0 /\ IsWhitespace(s[1]) THEN Trim(SubSeq(s, 2, Len(s)))
    ELSE IF Len(s) > 0 /\ IsWhitespace(s[Len(s)]) THEN Trim(SubSeq(s, 1, Len(s) - 1))
    ELSE s

\* String.prototype.includes
IncludesString(s, sub) ==
    \E i \in 1..(Len(s) - Len(sub) + 1) : SubSeq(s, i, i + Len(sub) - 1) = sub

\* name.includes(searchTerm) || emailUsername.includes(searchTerm) || email.includes(searchTerm)
MatchesSearchTerm(user, searchTerm) ==
    LET name == ToLowerCase(user.name)
        email == ToLowerCase(user.email)
        emailUsername == BeforeFirst(email, "@")
    IN \/ IncludesString(name, searchTerm)
       \/ IncludesString(emailUsername, searchTerm)
       \/ IncludesString(email, searchTerm)

\* getByUsername: the list it returns to the signed-in user userId
GetByUsername(userId, workspaceId, searchTerm, limitArg) ==
    LET limit == IF limitArg = <<>> \/ limitArg[1] = 0 THEN DefaultLimit ELSE limitArg[1]
        term == Trim(ToLowerCase(searchTerm))
        members == MembersOfWorkspace(workspaceId)
        matching == SelectSeq(members,
                              LAMBDA member : MatchesSearchTerm(UserDoc(member.userId), term))
        taken == IF Len(matching) <= limit THEN matching ELSE SubSeq(matching, 1, limit)
    IN IF userId = Undefined THEN <<>>
       ELSE IF GetMember(workspaceId, userId) = <<>> THEN <<>>
       ELSE IF Len(Trim(searchTerm)) < 1 THEN <<>>
       ELSE [i \in 1..Len(taken) |->
                [_id |-> taken[i]._id, userId |-> taken[i].userId,
                 workspaceId |-> taken[i].workspaceId,
                 displayName |-> UserDoc(taken[i].userId).name,
                 username |-> BeforeFirst(ToLowerCase(UserDoc(taken[i].userId).email),
                                          "@")]]

\* search terms typed after '@'
SearchTerms ==
    { <<>>, <<" ">>, <<"a">>, <<" ", "a", " ">>, <<"a", "l">>, <<"A", "L">>,
      <<"b", "o">>, <<"o", "b">>, <<"l", "i">>, <<"@", "x">>, <<"h", "i">> }

\* the limit argument: <<>> when omitted, else <<limit>>
Limits == {<<>>, <<0>>, <<1>>, <<2>>}

\* getByUsername (query)
GetByUsernameQuery(userId, workspaceId, searchTerm, limit) ==
    /\ last' = [op |-> "getByUsername", userId |-> userId, workspaceId |-> workspaceId,
                searchTerm |-> searchTerm, limit |-> limit,
                result |-> GetByUsername(userId, workspaceId, searchTerm, limit)]
    /\ UNCHANGED <<notificationPreferences, notifications, messages, now, inflight>>

NextSearch ==
    \E userId \in Callers, workspaceId \in Workspaces, searchTerm \in SearchTerms,
       limit \in Limits : GetByUsernameQuery(userId, workspaceId, searchTerm, limit)

SpecSearch == InitNotifications /\ [][NextSearch]_vars

\* the last call was a getByUsername by a member of the workspace
Searched ==
    /\ last.op = "getByUsername"
    /\ last.userId # Undefined
    /\ GetMember(last.workspaceId, last.userId) # <<>>

\* C26: a search term whose trimmed length is below 2 returns the empty list.
C26_ShortSearchTermReturnsNothing ==
    (last.op = "getByUsername" /\ Len(Trim(last.searchTerm)) < 2) => last.result = <<>>

\* the name or the e-mail local part of user u contains the trimmed search term,
\* ignoring case
HandleContains(u, searchTerm) ==
    \/ IncludesString(ToLowerCase(UserDoc(u).name), ToLowerCase(Trim(searchTerm)))
    \/ IncludesString(ToLowerCase(BeforeFirst(UserDoc(u).email, "@")),
                      ToLowerCase(Trim(searchTerm)))

\* the greatest number of members a search with the given limit may return
LimitOf(limit) == IF limit = <<>> THEN 10 ELSE limit[1]

\* C27: a search by a member returns at most `limit` members (10 when omitted),
\* all of the workspace and in membership order, each with a name or an e-mail
\* local part that contains the trimmed search term ignoring case.
C27_SearchByNameOrHandleUpToLimit ==
    Searched =>
        /\ Len(last.result) <= LimitOf(last.limit)
        /\ \A i \in 1..Len(last.result) :
              /\ last.result[i].workspaceId = last.workspaceId
              /\ GetMember(last.workspaceId, last.result[i].userId) # <<>>
              /\ HandleContains(last.result[i].userId, last.searchTerm)
        /\ \A i, j \in 1..Len(last.result) :
              i < j => MemberPosition(last.result[i].userId, last.workspaceId)
                       < MemberPosition(last.result[j].userId, last.workspaceId)


(***************************************************************************)
(* Quiet hours: the evaluator and the dispatcher are asked at several      *)
(* instants about a user whose record holds one of several windows.        *)
(***************************************************************************)
\* the quietHours arguments of updateGlobal: overnight windows that start on the
\* hour and on the half hour, a window of one day, a window with startTime = endTime
QuietWindows ==
    {[enabled |-> TRUE, startTime |-> w[1], endTime |-> w[2], timezone |-> "UTC"] :
        w \in {<<T2200, T0800>>, <<T2230, T0800>>, <<T0800, T2200>>, <<T2200, T2200>>}}

\* instants of the clock: 09:00, 21:59, 22:00, 22:10 and 23:30 of the first day,
\* 07:59 and 08:00 of the second
QuietInstants ==
    {9 * 60, 21 * 60 + 59, 22 * 60, 22 * 60 + 10, 23 * 60 + 30,
     24 * 60 + 7 * 60 + 59, 24 * 60 + 8 * 60}

\* time passes
QuietTick ==
    /\ \E t \in QuietInstants : t > now /\ now' = t
    /\ last' = [op |-> "tick"]
    /\ UNCHANGED <<notificationPreferences, notifications, messages, inflight>>

InitQuiet ==
    /\ notificationPreferences \in
          ReachableTables(1, EvalOwners, {[quietHours |-> q] : q \in QuietWindows}, {})
    /\ notifications = <<>>
    /\ messages = <<>>
    /\ now = 9 * 60
    /\ last = [op |-> "init"]
    /\ inflight = <<>>

NextQuiet ==
    \/ \E channelId \in Channels \cup {Undefined}, notificationType \in NotificationTypes :
          ShouldSendNotificationQuery("u2", "w1", channelId, notificationType)
    \/ \E args \in DispatchedArgs, messageId \in MessageIds :
          Create("u1", args, messageId, Undefined)
    \/ QuietTick

SpecQuiet == InitQuiet /\ [][NextQuiet]_vars

\* the quiet hours of u2's record in w1
QuietHoursOfU2 == RecordOf("u2", "w1").globalPreferences.quietHours

\* the evaluator answered a 'mention' question about u2 in w1
EvaluatorAsked ==
    /\ Answered
    /\ last.userId = "u2"
    /\ last.workspaceId = "w1"
    /\ last.notificationType = "mention"

\* the evaluator decides quiet hours as now in [startTime, endTime), by minutes
EvaluatorQuietByMinutes ==
    EvaluatorAsked => (last.result <=> ~InQuietWindow(QuietHoursOfU2, now))

\* the dispatcher decides quiet hours as now in [startTime, endTime), by minutes
DispatcherQuietByMinutes ==
    (Dispatched /\ "u2" \in Resolved) =>
        (CountRows("u2") = 1 <=> ~InQuietWindow(QuietHoursOfU2, now))

\* C28: with quiet hours enabled, the evaluator and the dispatcher both treat the
\* instant as quiet exactly when it lies in [startTime, endTime) of the HH:mm
\* clock, minutes included, wrapping past midnight when startTime > endTime and
\* with an empty window when startTime = endTime.
C28_QuietWindowByMinutesInBoth ==
    EvaluatorQuietByMinutes /\ DispatcherQuietByMinutes


(***************************************************************************)
(* The life of a preference record: createDefaults, updateGlobal and       *)
(* updateChannel of one user and workspace run concurrently, after any     *)
(* sequence of up to MaxLifecycleWrites earlier calls.                     *)
(***************************************************************************)
MaxLifecycleWrites == 1

\* createDefaults inserting the default document whether or not one exists
DefaultsWritesInserting(table, read) ==
    Append(table, CreateDefaultPreferences(ConcurrentUser, ConcurrentWorkspace))

\* the writes of createDefaults computed from the documents it read: the insert of
\* the default document when there was none, nothing when there was one
DefaultsWrites(table, read) ==
    IF read # <<>> THEN table
    ELSE Append(table, CreateDefaultPreferences(ConcurrentUser, ConcurrentWorkspace))

LifecycleCalls == {"createDefaults", "updateGlobal", "updateChannel"}

\* createDefaults commits and returns the id of the record
CommitDefaults ==
    /\ inflight.createDefaults.pc = "running"
    /\ ~Conflicts(inflight.createDefaults.read, notificationPreferences)
    /\ notificationPreferences' =
          DefaultsWrites(notificationPreferences, inflight.createDefaults.read)
    /\ inflight' = [inflight EXCEPT !.createDefaults.pc = "done"]
    /\ last' = [op |-> "commit", call |-> "createDefaults",
                id |-> PreferenceIndex(notificationPreferences', ConcurrentUser,
                                       ConcurrentWorkspace)]
    /\ UNCHANGED <<notifications, messages, now>>

InitLifecycle ==
    /\ notificationPreferences \in
          ReachableTables(MaxLifecycleWrites,
                          {<<ConcurrentUser, ConcurrentWorkspace>>}, GlobalArgs,
                          {"c1"} \X ChannelUpdates)
    /\ notifications = <<>>
    /\ messages = <<>>
    /\ now = 9 * 60
    /\ last = [op |-> "init"]
    /\ \E preferences \in GlobalArgs, channelId \in Channels,
          channelPreferences \in ChannelUpdates :
          inflight = [createDefaults |-> [pc |-> "pending", read |-> <<>>, retries |-> 0,
                                          first |-> <<>>, preferences |-> <<>>,
                                          channelId |-> Undefined],
                      updateGlobal |-> [pc |-> "pending", read |-> <<>>, retries |-> 0,
                                        first |-> <<>>,
                                        preferences |-> preferences,
                                        channelId |-> Undefined],
                      updateChannel |-> [pc |-> "pending", read |-> <<>>, retries |-> 0,
                                         first |-> <<>>,
                                         preferences |-> channelPreferences,
                                         channelId |-> channelId]]

NextLifecycle ==
    \/ \E r \in LifecycleCalls : StartCall(r)
    \/ \E r \in LifecycleCalls : RetryCall(r)
    \/ CommitDefaults
    \/ CommitGlobal
    \/ CommitChannel

SpecLifecycle == InitLifecycle /\ [][NextLifecycle]_vars

\* no (userId, workspaceId) has more than one preference record
OneRecordPerUserWorkspace ==
    \A u \in Users, w \in Workspaces :
        Len(PreferencesOf(notificationPreferences, u, w)) <= 1

\* a step inserts a record only when the user had none in the workspace
CreatesOnlyWhenMissing ==
    Len(notificationPreferences') > Len(notificationPreferences) =>
        /\ ReadSet(notificationPreferences) = <<>>
        /\ Len(notificationPreferences') = Len(notificationPreferences) + 1

\* a createDefaults that finds the record returns its id and writes nothing
DefaultsOnExistingChangesNothing ==
    (/\ last'.op = "commit"
     /\ last'.call = "createDefaults"
     /\ inflight.createDefaults.pc = "running"
     /\ ReadSet(notificationPreferences) # <<>>) =>
        /\ notificationPreferences' = notificationPreferences
        /\ last'.id = PreferenceIndex(notificationPreferences, ConcurrentUser,
                                      ConcurrentWorkspace)

CountArgs ==
    {[userId |-> a[1], messageId |-> "msg1", workspaceId |-> a[2], channelId |-> a[3],
      conversationId |-> a[4], type |-> "mention"] :
        a \in {<<"u2", "w1", "c1", Undefined>>, <<"u2", "w1", "c2", Undefined>>,
               <<"u2", "w2", "c1", Undefined>>, <<"u1", "w1", "c1", Undefined>>,
               <<"u2", "w1", Undefined, "d1">>}}

\* the loop of getUnreadCountByChannel over the rows still to be counted
RECURSIVE ChannelCounts(_, _)
ChannelCounts(unreadNotifications, channelCounts) ==
    IF unreadNotifications = <<>> THEN channelCounts
    ELSE LET channelId == Head(unreadNotifications).channelId
             count == IF channelId \in DOMAIN channelCounts
                      THEN channelCounts[channelId] ELSE 0
         IN ChannelCounts(Tail(unreadNotifications),
                          IF channelId # Undefined
                          THEN Spread(channelCounts, [c \in {channelId} |-> count + 1])
                          ELSE channelCounts)

\* the count that takes the read rows of the user as well
GetUnreadCountByChannelWithRead(table, userId, workspaceId) ==
    ChannelCounts(SelectSeq(table, LAMBDA n : /\ n.userId = userId
                                              /\ n.workspaceId = workspaceId),
                  <<>>)

\* getUnreadCountByChannel: the record of counts it returns
GetUnreadCountByChannel(table, userId, workspaceId) ==
    ChannelCounts(SelectSeq(table, LAMBDA n : /\ n.userId = userId /\ ~n.read
                                              /\ n.workspaceId = workspaceId),
                  <<>>)

\* getUnreadCountByChannel (query)
GetUnreadCountByChannelQuery(currentUserId, userId, workspaceId) ==
    /\ IF currentUserId = Undefined \/ currentUserId # userId
       THEN last' = [op |-> "getUnreadCountByChannel", threw |-> TRUE]
       ELSE last' = [op |-> "getUnreadCountByChannel", threw |-> FALSE,
                     userId |-> userId, workspaceId |-> workspaceId,
                     result |-> GetUnreadCountByChannel(notifications, userId,
                                                        workspaceId)]
    /\ UNCHANGED <<notificationPreferences, notifications, messages, now, inflight>>

NextCounts ==
    \/ \E currentUserId \in NotificationCallers, args \in CountArgs :
          NotificationsCreate(currentUserId, args)
    \/ \E currentUserId \in NotificationCallers, notificationId \in 1..(MaxNotifications + 1) :
          MarkAsRead(currentUserId, notificationId)
    \/ \E currentUserId \in NotificationCallers, userId \in {"u1", "u2"},
          channelId \in Channels :
          MarkChannelAsRead(currentUserId, userId, channelId)
    \/ \E currentUserId \in NotificationCallers, userId \in {"u1", "u2"},
          workspaceId \in Workspaces :
          GetUnreadCountByChannelQuery(currentUserId, userId, workspaceId)

SpecCounts == InitNotifications /\ [][NextCounts]_vars

\* the number of unread rows of user u in workspace w and channel c
UnreadIn(table, u, w, c) ==
    Cardinality({i \in 1..Len(table) :
                    /\ table[i].userId = u /\ table[i].workspaceId = w
                    /\ table[i].channelId = c /\ ~table[i].read})

\* the count the query gives for channel c: 0 when the channel is omitted
CountOf(table, u, w, c) ==
    IF c \in DOMAIN GetUnreadCountByChannel(table, u, w)
    THEN GetUnreadCountByChannel(table, u, w)[c] ELSE 0

\* the query maps exactly the channels with unread rows of the user in the
\* workspace, each to the number of those rows
CountsAreExact ==
    /\ \A u \in {"u1", "u2"}, w \in Workspaces :
          /\ DOMAIN GetUnreadCountByChannel(notifications, u, w)
                = {c \in Channels : UnreadIn(notifications, u, w, c) > 0}
          /\ \A c \in Channels :
                CountOf(notifications, u, w, c) = UnreadIn(notifications, u, w, c)
    /\ (last.op = "getUnreadCountByChannel" /\ ~last.threw) =>
          last.result = [c \in {c \in Channels :
                                   UnreadIn(notifications, last.userId,
                                            last.workspaceId, c) > 0} |->
                            UnreadIn(notifications, last.userId, last.workspaceId, c)]

\* markAsRead on an unread channel notification lowers the count of its user,
\* workspace and channel by one and changes no other count
MarkAsReadLowersOneCount ==
    \A id \in 1..Len(notifications) :
        (/\ MarkAsRead(notifications[id].userId, id)
         /\ ~notifications[id].read
         /\ notifications[id].channelId # Undefined) =>
            \A u \in {"u1", "u2"}, w \in Workspaces, c \in Channels :
                CountOf(notifications', u, w, c) =
                    IF /\ u = notifications[id].userId
                       /\ w = notifications[id].workspaceId
                       /\ c = notifications[id].channelId
                    THEN CountOf(notifications, u, w, c) - 1
                    ELSE CountOf(notifications, u, w, c)

\* markChannelAsRead(u, c) makes the count of c zero for u and leaves the read
\* flags of u's rows in other channels and of other users' rows as they were
MarkChannelAsReadZeroesOneChannel ==
    \A u \in {"u1", "u2"}, c \in Channels :
        MarkChannelAsRead(u, u, c) =>
            /\ \A w \in Workspaces : CountOf(notifications', u, w, c) = 0
            /\ \A i \in 1..Len(notifications) :
                  (notifications[i].userId # u \/ notifications[i].channelId # c) =>
                      notifications'[i].read = notifications[i].read

\* C30: in every reachable state getUnreadCountByChannel maps each channel to the
\* number of the user's unread rows of that workspace and channel and omits the
\* channels without one; markAsRead on an unread channel notification lowers
\* that one count by one; markChannelAsRead makes that channel's count zero and
\* leaves the rows of other channels and other users as they were.
C30_UnreadCountsByChannel ==
    /\ []CountsAreExact
    /\ [][MarkAsReadLowersOneCount /\ MarkChannelAsReadZeroesOneChannel]_vars

\* C30 witness: u2 had unread rows in c1 and c2 of w1, marked c1 as read, and the
\* query then answered with c2 alone, counted once
C30_Witness ==
    /\ last.op = "getUnreadCountByChannel" /\ ~last.threw
    /\ last.userId = "u2"
    /\ last.workspaceId = "w1"
    /\ last.result = [c \in {"c2"} |-> 1]
    /\ \E i \in 1..Len(notifications) :
          /\ notifications[i].userId = "u2" /\ notifications[i].workspaceId = "w1"
          /\ notifications[i].channelId = "c1" /\ notifications[i].read

====
